---- MODULE Spec2Model ----
(***************************************************************************)
(* Model of three subsystems of the node:                                  *)
(*   - the SenderRecovery and TotalDifficulty stages                       *)
(*     (crates/stages/src/stages/{sender_recovery,total_difficulty}.rs),   *)
(*     driven against one database by the pipeline,                        *)
(*   - the transactions manager (crates/net/network/src/transactions.rs),  *)
(*   - the beacon consensus engine                                         *)
(*     (crates/consensus/src/beacon/beacon_consensus.rs).                  *)
(* SpecStages is the specification of the stages, SpecTx the one of the    *)
(* transactions manager, SpecConsensus the one of the consensus engine.    *)
(***************************************************************************)
EXTENDS Integers, Sequences, FiniteSets, TLC

(***************************************************************************)
(* Bounds of the model.                                                    *)
(***************************************************************************)
\* highest block number of the chain in the database
MaxBlock == 3
\* highest number of transactions in one block
MaxTxPerBlock == 1
\* highest header difficulty
MaxDifficulty == 2
\* highest configured commit_threshold
MaxThreshold == 2
\* highest configured batch_size
MaxBatch == 2
\* number of distinct signer addresses
MaxAddr == 2
\* number of peers that can connect
MaxPeers == 2
\* number of distinct transaction hashes
MaxHash == 1
\* highest number of entries of one wire message
MaxMsgLen == 2
\* capacity of the request channels to the sessions
MaxInflight == 1
\* highest number of peers recorded for one pending pool import
MaxImportPeers == 2
\* a propagation round is run with up to MaxPropagationPeers connected peers
MaxPropagationPeers == 5
\* at most MaxReady items are ready in each stream of the manager
MaxReady == 1
\* at most MaxArrivals items become ready in a run of the manager
MaxArrivals == 4
\* an inserted block carries up to MaxBodyLen transactions
MaxBodyLen == 2
\* insert_block is called for the blocks 0..MaxInsertBlock
MaxInsertBlock == 2
\* the tx number and transition id given for a parent are 0..MaxParentId
MaxParentId == 1
\* extra_data is 0..MaxExtraData bytes long
MaxExtraData == 67
\* the bytes of extra_data are 0..MaxByte
MaxByte == 1
\* header hashes given to recover_header_signer are 0..MaxHeaderHash
MaxHeaderHash == 1
\* the metered streams are the two ends of MaxPairs duplex streams
MaxPairs == 2
\* a duplex stream buffers MaxPipe bytes for each end
MaxPipe == 2
\* a read or write call has a buffer of up to MaxBuf bytes
MaxBuf == 2
\* the streams of one meter write at most MaxTraffic bytes
MaxTraffic == 3
\* poll finds up to MaxRequests requests in flight
MaxRequests == 3
\* the node's event handler is followed over MaxNodeEvents network events
MaxNodeEvents == 4
\* the indices that are serialized are 0..MaxIndex
MaxIndex == 40
\* a string given to the Index deserializer has up to MaxStrLen characters
MaxStrLen == 3
\* a number given to the Index deserializer is 0..MaxJsonNumber
MaxJsonNumber == 20
\* the headers the test client holds are numbered 0..MaxHeaderNumber
MaxHeaderNumber == 3
\* the downloader's batch size is 1..MaxStreamBatch
MaxStreamBatch == 3
\* the downloader stream is polled until it has yielded MaxBatches batches
MaxBatches == 3
\* block hashes given as tips are 1..MaxTipHash
MaxTipHash == 4
\* the terminal total difficulties of the chain specifications are 0..MaxTTD
MaxTTD == 2
\* total difficulties passed to the consensus engine are 0..MaxTotalDifficulty
MaxTotalDifficulty == 3
\* header difficulties seen by the consensus engine are 0..MaxHeaderDifficulty
MaxHeaderDifficulty == 7
\* header nonces are 0..MaxNonce
MaxNonce == 1

VARIABLES
    \* ---- stages ----
    stage,              \* id() of the stage that is driven
    commit_threshold,   \* the stage's commit_threshold field
    batch_size,         \* SenderRecoveryStage::batch_size
    Headers,            \* tables::Headers, block number -> header
    BlockBodies,        \* tables::BlockBodies, block number -> StoredBlockBody
    Transactions,       \* tables::Transactions, tx_id -> signed transaction
    HeaderTD,           \* tables::HeaderTD, block number -> total difficulty
    TxSenders,          \* tables::TxSenders, tx_id -> address
    checkpoint,         \* the stage's progress, ExecInput::stage_progress of the next call
    last,               \* the last call of the stage: its input and its result
    unwound,            \* the stage's progress and tables as the last unwind found them
    committed,          \* the stage's progress and tables as of the pipeline's last commit
    \* ---- transactions manager ----
    syncState,              \* the sync state the network handle reports
    pool,                   \* hashes of the transactions in the pool
    peers,                  \* peers: peer id -> Peer
    transactions_by_peers,  \* transactions_by_peers: hash -> peers that sent it
    pool_imports,           \* pool_imports: hashes of the unfinished import futures
    inflight_requests,      \* inflight_requests: GetPooledTxRequest list
    handled,                \* the event the manager handled last
    sent,                   \* messages handed to the network while handling it
    reports,                \* peers of the reputation changes reported while handling it
    propagated,             \* PropagatedTransactions passed to pool.on_propagated
    \* ---- consensus ----
    chain_spec,         \* BeaconConsensus::chain_spec: the Paris terminal total difficulty
    validated,          \* the last validate_header call: its arguments and its result
    rewarded,           \* the last has_block_reward call: its argument and its result
    \* ---- TransactionsManager::poll ----
    network_events,         \* network_events: the ready items of the stream
    command_rx,             \* command_rx: the ready commands
    transaction_events,     \* transaction_events: the ready items of the stream
    pending_transactions,   \* pending_transactions: the ready hashes of the stream
    polling,                \* position of poll: 0 outside, else the index into PollOrder
    req_idx,                \* idx of the loop over inflight_requests
    polled,                 \* the sources of the items handled in this poll, in order
    ready,                  \* the number of ready items per stream when poll was called
    arrivals,               \* items made ready so far
    request_polls,      \* the in-flight requests this poll polled, with the outcome
    \* ---- the node and import commands ----
    command,            \* the command that runs: "import", "node --import" or "node"
    blocks,             \* the highest block of the block file, None without a file
    debug_tip,          \* Command::tip, the --debug.tip argument
    file_client,        \* FileClient::tip() of the file client, None before it exists
    forkchoice_state,   \* the value in the forkchoice watch channel, None before it exists
    cli,                \* the position of execute
    observed,           \* what the last reader of the forkchoice state saw
    \* ---- test header downloader ----
    downloader,         \* TestHeaderDownloader with its TestDownload and its client
    yielded,            \* the batches the downloader stream has yielded, in order
    \* ---- insert_block ----
    BlockTransitionIndex,   \* tables::BlockTransitionIndex, block number -> transition id
    TxTransitionIndex,      \* tables::TxTransitionIndex, tx_id -> transition id
    inserted,               \* the last insert_block call, and whether a parent was given yet
    \* ---- clique ----
    sealed_header,          \* the header given to recover_header_signer
    signer_result,          \* what recover_header_signer returned for it
    \* ---- metered streams ----
    stream_counts,          \* MeteredStreamCounts of the clients and of the servers
    duplex,                 \* the inner stream of every MeteredStream
    inner_io,               \* bytes the inner streams reported as read and as written
    io,                     \* the last poll_read or poll_write call
    \* ---- node events ----
    sessions,               \* the peers the network has an established session with
    listening,              \* whether network.event_listener() was registered
    node_events,            \* the network events queued for handle_events
    connected_peers,        \* NodeState::connected_peers, a usize in 16-bit limbs
    handle_events,          \* the task running handle_events: running or panicked
    overflow_checks,        \* whether the build checks integer arithmetic for overflow
    event_counts,           \* how many events of each kind handle_network_event was given
    \* ---- rpc Index ----
    index,                  \* the Index that was serialized, NoIndex without one
    json,                   \* the JSON value at the deserializer
    parsed                  \* the result of Index::deserialize

stageVars == <<stage, commit_threshold, batch_size, Headers, BlockBodies, Transactions,
               HeaderTD, TxSenders, checkpoint, last, unwound,
               committed>>

txVars == <<syncState, pool, peers, transactions_by_peers, pool_imports,
            inflight_requests, handled, sent, reports, propagated>>

consensusVars == <<chain_spec, validated, rewarded>>

pollVars == <<network_events, command_rx, transaction_events, pending_transactions,
              polling, req_idx, polled, ready, arrivals, request_polls>>

cliVars == <<command, blocks, debug_tip, file_client, forkchoice_state, cli, observed>>

dlVars == <<downloader, yielded>>

insertVars == <<BlockTransitionIndex, TxTransitionIndex, inserted>>

cliqueVars == <<sealed_header, signer_result>>

meterVars == <<stream_counts, duplex, inner_io, io>>

nodeVars == <<sessions, listening, node_events, connected_peers, handle_events,
              overflow_checks, event_counts>>

indexVars == <<index, json, parsed>>

\* the state of the components next to the manager's poll
besidePoll == <<cliVars, dlVars, insertVars, cliqueVars, meterVars, nodeVars, indexVars>>

\* the state of the components next to the commands
besideCli == <<pollVars, dlVars, insertVars, cliqueVars, meterVars, nodeVars, indexVars>>

\* the state of the components next to the header downloader
besideDl == <<pollVars, cliVars, insertVars, cliqueVars, meterVars, nodeVars, indexVars>>

\* the state of the components next to insert_block and the tables
besideInsert == <<pollVars, cliVars, dlVars, cliqueVars, meterVars, nodeVars, indexVars>>

\* the state of the components next to recover_header_signer
besideClique == <<pollVars, cliVars, dlVars, insertVars, meterVars, nodeVars, indexVars>>

\* the state of the components next to the metered streams
besideMeter == <<pollVars, cliVars, dlVars, insertVars, cliqueVars, nodeVars, indexVars>>

\* the state of the components next to the node's event handler
besideNode == <<pollVars, cliVars, dlVars, insertVars, cliqueVars, meterVars, indexVars>>

\* the state of the components next to the rpc Index
besideIndex == <<pollVars, cliVars, dlVars, insertVars, cliqueVars, meterVars, nodeVars>>

\* the state of the components next to the consensus engine
besideConsensus == <<pollVars, besidePoll>>

\* the state of the components next to the pipeline and the transactions manager
otherVars == <<consensusVars, besideConsensus>>

vars == <<stageVars, txVars, otherVars>>

(***************************************************************************)
(* Helpers on tables: a table is a function from its keys to its values.   *)
(***************************************************************************)
None == "None"

SENDER_RECOVERY == "SenderRecovery"

TOTAL_DIFFICULTY == "TotalDifficulty"

EmptyTable == <<>>

Min(a, b) == IF a <= b THEN a ELSE b

\* DbTxMut::put / a successful cursor append
Put(t, k, v) == [x \in (DOMAIN t) \cup {k} |-> IF x = k THEN v ELSE t[x]]

\* the table without the keys of ks
Without(t, ks) == [x \in (DOMAIN t) \ ks |-> t[x]]

\* DbCursorRW::append succeeds only for a key greater than every key of the table
CanAppend(t, k) == \A x \in DOMAIN t : x < k

\* the keys of ks in ascending order
RECURSIVE Ascending(_)
Ascending(ks) ==
    IF ks = {} THEN <<>>
    ELSE LET m == CHOOSE x \in ks : \A y \in ks : x <= y
         IN  <<m>> \o Ascending(ks \ {m})

(***************************************************************************)
(* Stage framework                                                         *)
(***************************************************************************)
\* ExecInput::next_action as used by exec_or_return!: nothing to do when the previous
\* stage is not ahead, else the range (stage_progress, min(previous, stage_progress + threshold)]
exec_or_return(stage_progress, previous_stage_progress, threshold) ==
    IF previous_stage_progress <= stage_progress
    THEN [action |-> "Done", stage_progress |-> stage_progress]
    ELSE LET end_block == Min(previous_stage_progress, stage_progress + threshold)
         IN  [action |-> "Run", start_block |-> stage_progress + 1, end_block |-> end_block,
              capped |-> end_block < previous_stage_progress]

\* StoredBlockBody::last_tx_index: start_tx_id + tx_count - 1, saturating at 0
last_tx_index(body) ==
    IF body.start_tx_id + body.tx_count = 0 THEN 0 ELSE body.start_tx_id + body.tx_count - 1

\* StoredBlockBody::tx_id_range
tx_id_range(body) == body.start_tx_id .. (body.start_tx_id + body.tx_count - 1)

\* Transaction::get_block_body_by_num: the body of the canonical block, or an error
has_block_body(num) == num \in DOMAIN BlockBodies

\* Option::None of recover_signer; the addresses are 1..MaxAddr
NoSigner == 0

\* TransactionSigned::recover_signer: the signer, or NoSigner for an invalid signature
recover_signer(transaction) ==
    IF transaction.valid THEN (transaction.payload % MaxAddr) + 1 ELSE NoSigner

\* Transaction::unwind_table_by_num / unwind_table_by_num_hash: delete every entry whose
\* key (block number) is above num
unwind_table(t, num) == Without(t, {k \in DOMAIN t : k > num})

ExecOk(input, previous, progress, done) ==
    [op |-> "execute", stage_progress |-> input, previous_stage_progress |-> previous,
     unwind_to |-> 0, result |-> "Ok", out_progress |-> progress, done |-> done, err |-> None,
     number |-> 0]

ExecErr(input, previous, err) ==
    [op |-> "execute", stage_progress |-> input, previous_stage_progress |-> previous,
     unwind_to |-> 0, result |-> "Err", out_progress |-> 0, done |-> FALSE, err |-> err,
     number |-> 0]

UnwindOk(input, to, progress) ==
    [op |-> "unwind", stage_progress |-> input, previous_stage_progress |-> 0,
     unwind_to |-> to, result |-> "Ok", out_progress |-> progress, done |-> FALSE, err |-> None,
     number |-> 0]

UnwindErr(input, to, err) ==
    [op |-> "unwind", stage_progress |-> input, previous_stage_progress |-> 0,
     unwind_to |-> to, result |-> "Err", out_progress |-> 0, done |-> FALSE, err |-> err,
     number |-> 0]

\* DatabaseIntegrityError::TotalDifficulty { number } returned by execute
TotalDifficultyErr(input, previous, number) ==
    [ExecErr(input, previous, "TotalDifficulty") EXCEPT !.number = number]

NoCall ==
    [op |-> "none", stage_progress |-> 0, previous_stage_progress |-> 0,
     unwind_to |-> 0, result |-> "Ok", out_progress |-> 0, done |-> FALSE, err |-> None,
     number |-> 0]

\* an error ends the run: the caller drops the write transaction
Running == last.result = "Ok"

\* SenderRecoveryStageError::SenderRecovery { tx } as the fatal StageError of execute
SenderRecoveryErr(input, previous, tx) ==
    [ExecErr(input, previous, "SenderRecovery") EXCEPT !.number = tx]

\* the pipeline after a call of the stage: it saves the progress and commits the write
\* transaction when the stage returned Ok, and commits nothing when it returned an error
PipelineCommit ==
    committed' = IF last'.result = "Ok"
                 THEN [checkpoint |-> checkpoint', HeaderTD |-> HeaderTD',
                       TxSenders |-> TxSenders']
                 ELSE committed

\* no unwind was called yet
NoUnwind == [tip |-> -1, to |-> -1, HeaderTD |-> EmptyTable, TxSenders |-> EmptyTable]

\* the input of an unwind to block `to` and the tables it is called on
Unwinding(to) == [tip |-> checkpoint, to |-> to, HeaderTD |-> HeaderTD, TxSenders |-> TxSenders]

(***************************************************************************)
(* SenderRecoveryStage                                                     *)
(***************************************************************************)
\* AppendSenders storing the first address for every transaction
RECURSIVE AppendSendersSameSigner(_, _)
AppendSendersSameSigner(ids, senders) ==
    IF ids = <<>> THEN [senders |-> senders, err |-> None]
    ELSE IF ~CanAppend(senders, Head(ids)) THEN [senders |-> senders, err |-> "Database"]
    ELSE AppendSendersSameSigner(Tail(ids), Put(senders, Head(ids), 1))

\* senders_cursor.append for every (id, sender) of one recovered chunk, in order;
\* stops at the first append the cursor refuses
RECURSIVE AppendSenders(_, _)
AppendSenders(ids, senders) ==
    IF ids = <<>> THEN [senders |-> senders, err |-> None]
    ELSE IF ~CanAppend(senders, Head(ids)) THEN [senders |-> senders, err |-> "Database"]
    ELSE AppendSenders(Tail(ids),
                       Put(senders, Head(ids), recover_signer(Transactions[Head(ids)])))

\* the order in which the parallel recoveries of a chunk of n transactions finish, for
\* an order finish of 1..batch_size
Finished(finish, n) == SelectSeq(finish, LAMBDA i : i <= n)

\* collect of the indexed parallel iterator: the results take the places of their
\* items, whatever the order they finished in
collect(chunk, finished) == [i \in 1..Len(chunk) |-> chunk[i]]

\* RecoverChunks leaving out the transactions whose signer cannot be recovered
RECURSIVE RecoverChunksSkipFailed(_, _, _)
RecoverChunksSkipFailed(entries, senders, finish) ==
    IF entries = <<>> THEN [senders |-> senders, err |-> None]
    ELSE LET n == Min(batch_size, Len(entries))
             chunk == SubSeq(entries, 1, n)
             ok == SelectSeq(chunk, LAMBDA id : recover_signer(Transactions[id]) # NoSigner)
             appended == AppendSenders(ok, senders)
         IN  IF appended.err # None THEN appended
             ELSE RecoverChunksSkipFailed(SubSeq(entries, n + 1, Len(entries)),
                                          appended.senders, finish)

\* the loop over entries.chunks(batch_size): a chunk is recovered as a whole, and
\* appended only when every recovery of the chunk succeeded; the error of a chunk with
\* failed recoveries is that of any one of them
RECURSIVE RecoverChunks(_, _, _)
RecoverChunks(entries, senders, finish) ==
    IF entries = <<>> THEN [senders |-> senders, err |-> None]
    ELSE LET n == Min(batch_size, Len(entries))
             chunk == SubSeq(entries, 1, n)
             failed == {i \in 1..n : recover_signer(Transactions[chunk[i]]) = NoSigner}
             recovered == collect(chunk, Finished(finish, n))
             appended == AppendSenders(recovered, senders)
         IN  IF failed # {}
             THEN [senders |-> senders, err |-> "SenderRecovery",
                   failed |-> {chunk[i] : i \in failed}]
             ELSE IF appended.err # None THEN appended
             ELSE RecoverChunks(SubSeq(entries, n + 1, Len(entries)), appended.senders,
                                finish)

\* SenderRecoveryDone with the flag inverted
SenderRecoveryDoneCapped(capped) == capped

\* let done = !capped
SenderRecoveryDone(capped) == ~capped

\* tx_cursor.walk_range(start..end + 1): the stored transactions of the range, ascending
walk_range(start, end) == Ascending({id \in DOMAIN Transactions : start <= id /\ id <= end})

\* SenderRecoveryStage::execute with ExecInput {previous_stage: q, stage_progress: checkpoint}
SenderRecoveryExecuteBody(q) ==
    LET act == exec_or_return(checkpoint, q, commit_threshold)
    IN  IF act.action = "Done"
        THEN /\ last' = ExecOk(checkpoint, q, act.stage_progress, TRUE)
             /\ checkpoint' = act.stage_progress
             /\ UNCHANGED TxSenders
        ELSE IF ~has_block_body(act.start_block) \/ ~has_block_body(act.end_block)
        THEN /\ last' = ExecErr(checkpoint, q, "BlockBody")
             /\ UNCHANGED <<checkpoint, TxSenders>>
        ELSE LET start_tx_index == BlockBodies[act.start_block].start_tx_id
                 end_tx_index == last_tx_index(BlockBodies[act.end_block])
             IN  IF start_tx_index > end_tx_index
                 THEN /\ last' = ExecOk(checkpoint, q, act.end_block, TRUE)
                      /\ checkpoint' = act.end_block
                      /\ UNCHANGED TxSenders
                 ELSE \E finish \in Permutations(1..batch_size) :
                        LET recovered == RecoverChunks(
                                walk_range(start_tx_index, end_tx_index), TxSenders, finish)
                        IN  /\ TxSenders' = recovered.senders
                            /\ IF recovered.err = "SenderRecovery"
                               THEN /\ \E tx \in recovered.failed :
                                          last' = SenderRecoveryErr(checkpoint, q, tx)
                                    /\ UNCHANGED checkpoint
                               ELSE IF recovered.err # None
                               THEN /\ last' = ExecErr(checkpoint, q, recovered.err)
                                    /\ UNCHANGED checkpoint
                               ELSE /\ last' = ExecOk(checkpoint, q, act.end_block,
                                                       SenderRecoveryDone(act.capped))
                                    /\ checkpoint' = act.end_block

SenderRecoveryExecute ==
    /\ stage = SENDER_RECOVERY
    /\ Running
    /\ \E q \in 0..MaxBlock : SenderRecoveryExecuteBody(q)
    /\ UNCHANGED <<stage, commit_threshold, batch_size, Headers, BlockBodies, Transactions,
                   HeaderTD, unwound>>
    /\ PipelineCommit
    /\ UNCHANGED <<txVars, otherVars>>

\* SenderRecoveryStage::unwind with UnwindInput {unwind_to, stage_progress: checkpoint}
SenderRecoveryUnwindBody(unwind_to) ==
    IF ~has_block_body(unwind_to)
    THEN /\ last' = UnwindErr(checkpoint, unwind_to, "BlockBody")
         /\ UNCHANGED <<checkpoint, TxSenders>>
    ELSE LET latest_tx_id == last_tx_index(BlockBodies[unwind_to])
         IN  /\ TxSenders' = unwind_table(TxSenders, latest_tx_id)
             /\ last' = UnwindOk(checkpoint, unwind_to, unwind_to)
             /\ checkpoint' = unwind_to

SenderRecoveryUnwind ==
    /\ stage = SENDER_RECOVERY
    /\ Running
    /\ \E unwind_to \in 0..checkpoint :
          /\ SenderRecoveryUnwindBody(unwind_to)
          /\ unwound' = Unwinding(unwind_to)
    /\ UNCHANGED <<stage, commit_threshold, batch_size, Headers, BlockBodies, Transactions,
                   HeaderTD>>
    /\ PipelineCommit
    /\ UNCHANGED <<txVars, otherVars>>

(***************************************************************************)
(* TotalDifficultyStage                                                    *)
(***************************************************************************)
\* cursor_headers.walk(start_key) taken while header.number <= end_block, ascending
walk_headers(start_block, end_block) ==
    Ascending({n \in DOMAIN Headers : start_block <= n /\ n <= end_block})

\* AppendTD writing each header's own difficulty instead of the running sum
RECURSIVE AppendTDNoSum(_, _, _)
AppendTDNoSum(keys, td, table) ==
    IF keys = <<>> THEN [table |-> table, err |-> None]
    ELSE IF ~CanAppend(table, Head(keys)) THEN [table |-> table, err |-> "Database"]
    ELSE AppendTDNoSum(Tail(keys), td, Put(table, Head(keys), Headers[Head(keys)].difficulty))

\* the loop over the walker: td += header.difficulty; cursor_td.append(key, td)
RECURSIVE AppendTD(_, _, _)
AppendTD(keys, td, table) ==
    IF keys = <<>> THEN [table |-> table, err |-> None]
    ELSE IF ~CanAppend(table, Head(keys)) THEN [table |-> table, err |-> "Database"]
    ELSE AppendTD(Tail(keys), td + Headers[Head(keys)].difficulty,
                  Put(table, Head(keys), td + Headers[Head(keys)].difficulty))

\* let done = !capped
TotalDifficultyDone(capped) == ~capped

\* TotalDifficultyExecuteBody looking up the seed entry before exec_or_return
TotalDifficultyExecuteBodySeedFirst(q) ==
    LET act == exec_or_return(checkpoint, q, commit_threshold)
        written == AppendTD(walk_headers(act.start_block, act.end_block),
                            HeaderTD[checkpoint], HeaderTD)
    IN  IF checkpoint \notin DOMAIN HeaderTD
        THEN /\ last' = TotalDifficultyErr(checkpoint, q, checkpoint)
             /\ UNCHANGED <<checkpoint, HeaderTD>>
        ELSE IF act.action = "Done"
        THEN /\ last' = ExecOk(checkpoint, q, act.stage_progress, TRUE)
             /\ checkpoint' = act.stage_progress
             /\ UNCHANGED HeaderTD
        ELSE /\ HeaderTD' = written.table
             /\ IF written.err # None
                THEN /\ last' = ExecErr(checkpoint, q, written.err)
                     /\ UNCHANGED checkpoint
                ELSE /\ last' = ExecOk(checkpoint, q, act.end_block,
                                       TotalDifficultyDone(act.capped))
                     /\ checkpoint' = act.end_block

\* TotalDifficultyExecuteBody starting from a total difficulty of 0 when the seed entry
\* is missing
TotalDifficultyExecuteBodySeedDefault(q) ==
    LET act == exec_or_return(checkpoint, q, commit_threshold)
        seed == IF checkpoint \in DOMAIN HeaderTD THEN HeaderTD[checkpoint] ELSE 0
    IN  IF act.action = "Done"
        THEN /\ last' = ExecOk(checkpoint, q, act.stage_progress, TRUE)
             /\ checkpoint' = act.stage_progress
             /\ UNCHANGED HeaderTD
        ELSE LET written == AppendTD(walk_headers(act.start_block, act.end_block),
                                     seed, HeaderTD)
             IN  /\ HeaderTD' = written.table
                 /\ IF written.err # None
                    THEN /\ last' = ExecErr(checkpoint, q, written.err)
                         /\ UNCHANGED checkpoint
                    ELSE /\ last' = ExecOk(checkpoint, q, act.end_block,
                                            TotalDifficultyDone(act.capped))
                         /\ checkpoint' = act.end_block

\* no read of the headers cursor fails
NoReadFailure == MaxBlock + 1

\* the walker when the cursor fails to read the entry of block fail_at: take_while
\* takes the error for the end of the range
walk_headers_until(start_block, end_block, fail_at) ==
    Ascending({n \in DOMAIN Headers : start_block <= n /\ n <= end_block /\ n < fail_at})

\* TotalDifficultyStage::execute with ExecInput {previous_stage: q, stage_progress:
\* checkpoint}, the headers cursor failing at block fail_at
TotalDifficultyExecuteFailing(q, fail_at) ==
    LET act == exec_or_return(checkpoint, q, commit_threshold)
    IN  IF act.action = "Done"
        THEN /\ last' = ExecOk(checkpoint, q, act.stage_progress, TRUE)
             /\ checkpoint' = act.stage_progress
             /\ UNCHANGED HeaderTD
        ELSE IF checkpoint \notin DOMAIN HeaderTD
        THEN /\ last' = TotalDifficultyErr(checkpoint, q, checkpoint)
             /\ UNCHANGED <<checkpoint, HeaderTD>>
        ELSE LET written == AppendTD(walk_headers_until(act.start_block, act.end_block,
                                                        fail_at),
                                     HeaderTD[checkpoint], HeaderTD)
             IN  /\ HeaderTD' = written.table
                 /\ IF written.err # None
                    THEN /\ last' = ExecErr(checkpoint, q, written.err)
                         /\ UNCHANGED checkpoint
                    ELSE /\ last' = ExecOk(checkpoint, q, act.end_block,
                                            TotalDifficultyDone(act.capped))
                         /\ checkpoint' = act.end_block

\* TotalDifficultyStage::execute with ExecInput {previous_stage: q, stage_progress: checkpoint}
TotalDifficultyExecuteBody(q) == TotalDifficultyExecuteFailing(q, NoReadFailure)

\* an execute during which the database fails to read a header
TotalDifficultyExecuteReadFailure ==
    /\ stage = TOTAL_DIFFICULTY
    /\ Running
    /\ \E q \in 0..MaxBlock, fail_at \in 1..MaxBlock :
          TotalDifficultyExecuteFailing(q, fail_at)
    /\ UNCHANGED <<stage, commit_threshold, batch_size, Headers, BlockBodies, Transactions,
                   TxSenders, unwound>>
    /\ PipelineCommit
    /\ UNCHANGED <<txVars, otherVars>>

TotalDifficultyExecute ==
    /\ stage = TOTAL_DIFFICULTY
    /\ Running
    /\ \E q \in 0..MaxBlock : TotalDifficultyExecuteBody(q)
    /\ UNCHANGED <<stage, commit_threshold, batch_size, Headers, BlockBodies, Transactions,
                   TxSenders, unwound>>
    /\ PipelineCommit
    /\ UNCHANGED <<txVars, otherVars>>

\* TotalDifficultyUnwindBody reporting the progress it was called with
TotalDifficultyUnwindBodyStale(unwind_to) ==
    /\ HeaderTD' = unwind_table(HeaderTD, unwind_to)
    /\ last' = UnwindOk(checkpoint, unwind_to, checkpoint)
    /\ checkpoint' = checkpoint

\* TotalDifficultyUnwindBody deleting the entry of block unwind_to as well
TotalDifficultyUnwindBodyInclusive(unwind_to) ==
    /\ HeaderTD' = unwind_table(HeaderTD, unwind_to - 1)
    /\ last' = UnwindOk(checkpoint, unwind_to, unwind_to)
    /\ checkpoint' = unwind_to

\* TotalDifficultyStage::unwind with UnwindInput {unwind_to, stage_progress: checkpoint}
TotalDifficultyUnwindBody(unwind_to) ==
    /\ HeaderTD' = unwind_table(HeaderTD, unwind_to)
    /\ last' = UnwindOk(checkpoint, unwind_to, unwind_to)
    /\ checkpoint' = unwind_to

TotalDifficultyUnwind ==
    /\ stage = TOTAL_DIFFICULTY
    /\ Running
    /\ \E unwind_to \in 0..checkpoint :
          /\ TotalDifficultyUnwindBody(unwind_to)
          /\ unwound' = Unwinding(unwind_to)
    /\ UNCHANGED <<stage, commit_threshold, batch_size, Headers, BlockBodies, Transactions,
                   TxSenders>>
    /\ PipelineCommit
    /\ UNCHANGED <<txVars, otherVars>>

\* the pipeline invokes the current stage's execute with the target q and commits
PipelineExecute(q) ==
    /\ IF stage = SENDER_RECOVERY
       THEN SenderRecoveryExecuteBody(q) /\ UNCHANGED HeaderTD
       ELSE TotalDifficultyExecuteBody(q) /\ UNCHANGED TxSenders
    /\ UNCHANGED <<stage, commit_threshold, batch_size, Headers, BlockBodies, Transactions,
                   unwound>>
    /\ PipelineCommit
    /\ UNCHANGED <<txVars, otherVars>>

\* the first call of a run, for a previous stage that is ahead
PipelineFirstExecute ==
    /\ last = NoCall
    /\ \E q \in (checkpoint + 1)..MaxBlock : PipelineExecute(q)

\* done = false: commit, reopen, reinvoke with the progress the stage returned
PipelineReinvoke ==
    /\ last.op = "execute"
    /\ last.result = "Ok"
    /\ ~last.done
    /\ PipelineExecute(last.previous_stage_progress)

\* the run that ended with an error is aborted: its write transaction is dropped, and
\* the pipeline starts again from what was committed
PipelineRestart ==
    /\ ~Running
    /\ checkpoint' = committed.checkpoint
    /\ HeaderTD' = committed.HeaderTD
    /\ TxSenders' = committed.TxSenders
    /\ last' = NoCall
    /\ UNCHANGED <<stage, commit_threshold, batch_size, Headers, BlockBodies, Transactions,
                   unwound, committed>>
    /\ UNCHANGED <<txVars, otherVars>>

(***************************************************************************)
(* Transactions manager                                                    *)
(***************************************************************************)
PeerIds == 1..MaxPeers

TxHashes == 1..MaxHash

\* a TransactionSigned on the wire: its hash, and whether its signer can be recovered
WireTxs == [hash : TxHashes, valid : BOOLEAN]

SeqsUpTo(S, n) == UNION {[1..k -> S] : k \in 0..n}

\* Cache limit of transactions to keep track of for a single peer
PEER_TRANSACTION_CACHE_LIMIT == 10240

\* the set of the elements of a sequence
Range(q) == {q[i] : i \in DOMAIN q}

\* the sequence q without the elements of S
Remove(q, S) == SelectSeq(q, LAMBDA x : x \notin S)

\* LruCache::insert: FALSE when the entry is already cached, else the entry is added
\* and the least recently used entry is evicted beyond the limit
LruInsert(cache, hash) ==
    IF hash \in Range(cache)
    THEN [cache |-> Append(Remove(cache, {hash}), hash), inserted |-> FALSE]
    ELSE LET added == Append(cache, hash)
         IN  [cache |-> IF Len(added) > PEER_TRANSACTION_CACHE_LIMIT THEN Tail(added)
                        ELSE added,
              inserted |-> TRUE]

\* LruCache::extend
RECURSIVE LruExtend(_, _)
LruExtend(cache, hashes) ==
    IF hashes = <<>> THEN cache
    ELSE LruExtend(LruInsert(cache, Head(hashes)).cache, Tail(hashes))

\* NetworkHandle::is_syncing
is_syncing == syncState # "Synced"

\* TransactionPool::get_all: the hashes of the pooled transactions among hashes
get_all(hashes) == Remove(hashes, TxHashes \ pool)

\* TransactionPool::retain_unknown: the hashes the pool does not know
retain_unknown(hashes) == Remove(hashes, pool)

\* TransactionPool::pooled_transactions
pooled_transactions == Ascending(pool)

\* Peer with an empty LruCache
NewPeer == [transactions |-> <<>>]

Message(msg, peer_id, hashes) == [msg |-> msg, peer_id |-> peer_id, hashes |-> hashes]

Handled(event, peer_id) == [event |-> event, peer_id |-> peer_id]

\* (n as f64).sqrt() as usize
Sqrt(n) == CHOOSE r \in 0..n : r * r <= n /\ (r + 1) * (r + 1) > n

\* on_get_pooled_transactions recording the served hashes without the cache's eviction
on_get_pooled_transactions_unbounded(peer_id, request) ==
    /\ handled' = Handled("GetPooledTransactions", peer_id)
    /\ sent' = IF peer_id \in DOMAIN peers
               THEN <<Message("PooledTransactions", peer_id, get_all(request))>>
               ELSE <<>>
    /\ peers' = IF peer_id \in DOMAIN peers
                THEN [peers EXCEPT ![peer_id].transactions =
                          Remove(@, Range(get_all(request))) \o get_all(request)]
                ELSE peers
    /\ reports' = <<>>
    /\ propagated' = {}
    /\ UNCHANGED <<syncState, pool, transactions_by_peers, pool_imports, inflight_requests>>

\* on_get_pooled_transactions
on_get_pooled_transactions(peer_id, request) ==
    /\ handled' = Handled("GetPooledTransactions", peer_id)
    /\ IF peer_id \in DOMAIN peers
       THEN LET transactions == get_all(request)
            IN  /\ peers' = [peers EXCEPT ![peer_id].transactions =
                                 LruExtend(peers[peer_id].transactions, transactions)]
                /\ sent' = <<Message("PooledTransactions", peer_id, transactions)>>
       ELSE /\ sent' = <<>>
            /\ UNCHANGED peers
    /\ reports' = <<>>
    /\ propagated' = {}
    /\ UNCHANGED <<syncState, pool, transactions_by_peers, pool_imports,
                   inflight_requests>>

\* FilterInsert keeping also the hashes that were already in the peer's cache
RECURSIVE FilterInsertKeepKnown(_, _, _)
FilterInsertKeepKnown(txs, cache, kept) ==
    IF txs = <<>> THEN [cache |-> cache, hashes |-> kept]
    ELSE FilterInsertKeepKnown(Tail(txs), LruInsert(cache, Head(txs)).cache,
                               Append(kept, Head(txs)))

\* txs.iter().filter(|(hash, _)| peer.transactions.insert(*hash)): the hashes that were
\* not yet in the peer's cache, and the cache after the inserts
RECURSIVE FilterInsert(_, _, _)
FilterInsert(txs, cache, kept) ==
    IF txs = <<>> THEN [cache |-> cache, hashes |-> kept]
    ELSE LET ins == LruInsert(cache, Head(txs))
         IN  FilterInsert(Tail(txs), ins.cache,
                          IF ins.inserted THEN Append(kept, Head(txs)) ELSE kept)

\* the loop of propagate_transactions over self.peers.iter_mut().enumerate(), from
\* index idx on; order is the iteration order of the peers map
RECURSIVE PropagateLoop(_, _, _, _)
PropagateLoop(order, idx, txs, st) ==
    IF idx >= Len(order) THEN st
    ELSE LET peer_id == order[idx + 1]
             max_num_full == Sqrt(Len(order)) + 1
             filtered == FilterInsert(txs, st.peers[peer_id].transactions, <<>>)
             known == [st.peers EXCEPT ![peer_id].transactions = filtered.cache]
             hashes == filtered.hashes
         IN  IF hashes = <<>>
             THEN PropagateLoop(order, idx + 1, txs, [st EXCEPT !.peers = known])
             ELSE IF idx > max_num_full
             THEN PropagateLoop(order, idx + 1, txs,
                      [peers |-> known,
                       sent |-> Append(st.sent,
                                       Message("NewPooledTransactionHashes", peer_id, hashes)),
                       propagated |-> st.propagated \cup
                           {[hash |-> h, peer_id |-> peer_id, kind |-> "Hash"] :
                                h \in Range(hashes)}])
             ELSE PropagateLoop(order, idx + 1, txs,
                      [peers |-> known,
                       sent |-> Append(st.sent, Message("Transactions", peer_id, hashes)),
                       propagated |-> st.propagated \cup
                           {[hash |-> h, peer_id |-> peer_id, kind |-> "Full"] :
                                h \in Range(hashes)}])

\* the iteration orders of the peers map
PeerOrders ==
    {order \in [1..Cardinality(DOMAIN peers) -> DOMAIN peers] : Range(order) = DOMAIN peers}

\* propagate_transactions for one iteration order of the peers map
propagate_transactions(txs, order) ==
    PropagateLoop(order, 0, txs, [peers |-> peers, sent |-> <<>>, propagated |-> {}])

\* on_new_transactions ignoring the sync state
on_new_transactions_unguarded(hashes) ==
    \E order \in PeerOrders :
        LET done == propagate_transactions(get_all(hashes), order)
        IN  /\ peers' = done.peers
            /\ sent' = done.sent
            /\ propagated' = done.propagated

\* on_new_transactions
on_new_transactions(hashes) ==
    IF is_syncing
    THEN /\ sent' = <<>>
         /\ propagated' = {}
         /\ UNCHANGED peers
    ELSE \E order \in PeerOrders :
            LET done == propagate_transactions(get_all(hashes), order)
            IN  /\ peers' = done.peers
                /\ sent' = done.sent
                /\ propagated' = done.propagated

\* the loop of import_transactions over the transactions of the message
RECURSIVE ImportLoop(_, _, _, _)
ImportLoop(peer_id, transactions, is_broadcast, st) ==
    IF transactions = <<>> THEN st
    ELSE LET tx == Head(transactions)
             ins == IF is_broadcast THEN LruInsert(st.cache, tx.hash)
                    ELSE [cache |-> st.cache, inserted |-> TRUE]
             seen == st.num_already_seen + (IF ins.inserted THEN 0 ELSE 1)
         IN  IF ~tx.valid
             THEN ImportLoop(peer_id, Tail(transactions), is_broadcast,
                             [st EXCEPT !.has_bad_transactions = TRUE])
             ELSE IF tx.hash \in DOMAIN st.by_peers
             THEN ImportLoop(peer_id, Tail(transactions), is_broadcast,
                      [st EXCEPT !.cache = ins.cache, !.num_already_seen = seen,
                                 !.by_peers = [st.by_peers EXCEPT ![tx.hash] =
                                                   Append(st.by_peers[tx.hash], peer_id)]])
             ELSE ImportLoop(peer_id, Tail(transactions), is_broadcast,
                      [st EXCEPT !.cache = ins.cache, !.num_already_seen = seen,
                                 !.by_peers = Put(st.by_peers, tx.hash, <<peer_id>>),
                                 !.imports = Append(st.imports, tx.hash)])

\* import_transactions behind its sync-state check
import_transactions_synced(peer_id, transactions, is_broadcast) ==
    IF peer_id \in DOMAIN peers
    THEN LET done == ImportLoop(peer_id, transactions, is_broadcast,
                         [cache |-> peers[peer_id].transactions,
                          by_peers |-> transactions_by_peers,
                          imports |-> pool_imports,
                          has_bad_transactions |-> FALSE,
                          num_already_seen |-> 0])
         IN  /\ \A h \in DOMAIN done.by_peers : Len(done.by_peers[h]) <= MaxImportPeers
             /\ peers' = [peers EXCEPT ![peer_id].transactions = done.cache]
             /\ transactions_by_peers' = done.by_peers
             /\ pool_imports' = done.imports
             /\ reports' = IF done.has_bad_transactions \/ done.num_already_seen > 0
                           THEN <<peer_id>> ELSE <<>>
    ELSE /\ reports' = <<>>
         /\ UNCHANGED <<peers, transactions_by_peers, pool_imports>>

\* import_transactions ignoring the sync state
import_transactions_unguarded(peer_id, transactions, is_broadcast) ==
    import_transactions_synced(peer_id, transactions, is_broadcast)

\* import_transactions
import_transactions(peer_id, transactions, is_broadcast) ==
    IF is_syncing
    THEN /\ reports' = <<>>
         /\ UNCHANGED <<peers, transactions_by_peers, pool_imports>>
    ELSE import_transactions_synced(peer_id, transactions, is_broadcast)

\* the loop of on_new_pooled_transaction_hashes that records the hashes the peer knows
RECURSIVE SeenLoop(_, _, _)
SeenLoop(hashes, cache, num_already_seen) ==
    IF hashes = <<>> THEN [cache |-> cache, num_already_seen |-> num_already_seen]
    ELSE LET ins == LruInsert(cache, Head(hashes))
         IN  SeenLoop(Tail(hashes), ins.cache,
                      num_already_seen + (IF ins.inserted THEN 0 ELSE 1))

\* on_new_pooled_transaction_hashes tracking the request whether or not try_send
\* handed it to the session
on_new_pooled_transaction_hashes_tracking_unsent(peer_id, msg, sendable) ==
    /\ handled' = Handled("IncomingPooledTransactionHashes", peer_id)
    /\ propagated' = {}
    /\ UNCHANGED <<syncState, pool, transactions_by_peers, pool_imports>>
    /\ IF is_syncing \/ peer_id \notin DOMAIN peers
       THEN /\ sent' = <<>>
            /\ reports' = <<>>
            /\ UNCHANGED <<peers, inflight_requests>>
       ELSE LET seen == SeenLoop(msg, peers[peer_id].transactions, 0)
                transactions == retain_unknown(msg)
            IN  /\ peers' = [peers EXCEPT ![peer_id].transactions = seen.cache]
                /\ IF transactions = <<>>
                   THEN /\ sent' = <<>>
                        /\ reports' = <<>>
                        /\ UNCHANGED inflight_requests
                   ELSE /\ sent' = IF sendable
                                   THEN <<Message("GetPooledTransactions", peer_id,
                                                  transactions)>>
                                   ELSE <<>>
                        /\ inflight_requests' =
                               Append(inflight_requests, [peer_id |-> peer_id])
                        /\ reports' = IF seen.num_already_seen > 0 THEN <<peer_id>> ELSE <<>>

\* on_new_pooled_transaction_hashes; sendable is the outcome of request_tx.try_send
on_new_pooled_transaction_hashes(peer_id, msg, sendable) ==
    /\ handled' = Handled("IncomingPooledTransactionHashes", peer_id)
    /\ propagated' = {}
    /\ UNCHANGED <<syncState, pool, transactions_by_peers, pool_imports>>
    /\ IF is_syncing \/ peer_id \notin DOMAIN peers
       THEN /\ sent' = <<>>
            /\ reports' = <<>>
            /\ UNCHANGED <<peers, inflight_requests>>
       ELSE LET seen == SeenLoop(msg, peers[peer_id].transactions, 0)
                transactions == retain_unknown(msg)
            IN  /\ peers' = [peers EXCEPT ![peer_id].transactions = seen.cache]
                /\ IF transactions = <<>>
                   THEN /\ sent' = <<>>
                        /\ reports' = <<>>
                        /\ UNCHANGED inflight_requests
                   ELSE /\ IF sendable
                           THEN /\ sent' = <<Message("GetPooledTransactions", peer_id,
                                                     transactions)>>
                                /\ inflight_requests' =
                                       Append(inflight_requests, [peer_id |-> peer_id])
                           ELSE /\ sent' = <<>>
                                /\ UNCHANGED inflight_requests
                        /\ reports' = IF seen.num_already_seen > 0 THEN <<peer_id>> ELSE <<>>

\* on_network_tx_event for NetworkTransactionEvent::IncomingTransactions
on_incoming_transactions(peer_id, msg) ==
    /\ handled' = Handled("IncomingTransactions", peer_id)
    /\ import_transactions(peer_id, msg, TRUE)
    /\ sent' = <<>>
    /\ propagated' = {}
    /\ UNCHANGED <<syncState, pool, inflight_requests>>

\* on_network_tx_event, NetworkTransactionEvent::IncomingTransactions
IncomingTransactions ==
    \E peer_id \in PeerIds, msg \in SeqsUpTo(WireTxs, MaxMsgLen) :
        /\ on_incoming_transactions(peer_id, msg)
        /\ UNCHANGED <<stageVars, otherVars>>

\* on_network_tx_event, NetworkTransactionEvent::IncomingPooledTransactionHashes; the
\* request channel of a session takes a request while it has capacity
IncomingPooledTransactionHashes ==
    \E peer_id \in PeerIds, msg \in SeqsUpTo(TxHashes, MaxMsgLen), sendable \in BOOLEAN :
        /\ sendable => Len(inflight_requests) < MaxInflight
        /\ on_new_pooled_transaction_hashes(peer_id, msg, sendable)
        /\ UNCHANGED <<stageVars, otherVars>>

\* on_network_tx_event, NetworkTransactionEvent::GetPooledTransactions
GetPooledTransactions ==
    \E peer_id \in PeerIds, request \in SeqsUpTo(TxHashes, MaxMsgLen) :
        /\ on_get_pooled_transactions(peer_id, request)
        /\ UNCHANGED <<stageVars, otherVars>>

\* on_command
on_command(hash) ==
    /\ handled' = Handled("PropagateHash", 0)
    /\ on_new_transactions(<<hash>>)
    /\ reports' = <<>>
    /\ UNCHANGED <<syncState, pool, transactions_by_peers, pool_imports, inflight_requests>>

\* on_command, TransactionsCommand::PropagateHash
PropagateHash ==
    \E hash \in TxHashes :
        /\ on_command(hash)
        /\ UNCHANGED <<stageVars, otherVars>>

\* poll: on_new_transactions(new_txs) for the drained pending_transactions
on_pending_transactions(new_txs) ==
    /\ handled' = Handled("PendingTransactions", 0)
    /\ on_new_transactions(new_txs)
    /\ reports' = <<>>
    /\ UNCHANGED <<syncState, pool, transactions_by_peers, pool_imports, inflight_requests>>

\* poll: the drain of pending_transactions, the hashes the pool announced as pending,
\* followed by on_new_transactions(new_txs) when there are any
PendingTransactions ==
    \E new_txs \in SeqsUpTo(TxHashes, MaxMsgLen) \ {<<>>} :
    /\ on_pending_transactions(new_txs)
    /\ UNCHANGED <<stageVars, otherVars>>

\* session_established_messages ignoring the sync state
session_established_messages_unguarded(peer_id) ==
    <<Message("NewPooledTransactionHashes", peer_id, pooled_transactions)>>

\* the message on_network_event sends to a new peer: a NewPooledTransactionHashes with
\* all transactions in the pool, unless the node is syncing
session_established_messages(peer_id) ==
    IF ~is_syncing
    THEN <<Message("NewPooledTransactionHashes", peer_id, pooled_transactions)>>
    ELSE <<>>

\* on_network_event for NetworkEvent::SessionEstablished
on_session_established(peer_id) ==
    /\ handled' = Handled("SessionEstablished", peer_id)
    /\ peers' = Put(peers, peer_id, NewPeer)
    /\ sent' = session_established_messages(peer_id)
    /\ reports' = <<>>
    /\ propagated' = {}
    /\ UNCHANGED <<syncState, pool, transactions_by_peers, pool_imports, inflight_requests>>

\* on_session_closed leaving the peer in the table
on_session_closed_keeping_peer(peer_id) ==
    /\ handled' = Handled("SessionClosed", peer_id)
    /\ sent' = <<>>
    /\ reports' = <<>>
    /\ propagated' = {}
    /\ UNCHANGED <<syncState, pool, peers, transactions_by_peers, pool_imports,
                   inflight_requests>>

\* on_network_event for NetworkEvent::SessionClosed
on_session_closed(peer_id) ==
    /\ handled' = Handled("SessionClosed", peer_id)
    /\ peers' = Without(peers, {peer_id})
    /\ sent' = <<>>
    /\ reports' = <<>>
    /\ propagated' = {}
    /\ UNCHANGED <<syncState, pool, transactions_by_peers, pool_imports, inflight_requests>>

\* on_network_event, NetworkEvent::SessionEstablished
SessionEstablished ==
    \E peer_id \in PeerIds :
        /\ on_session_established(peer_id)
        /\ UNCHANGED <<stageVars, otherVars>>

\* on_network_event, NetworkEvent::SessionClosed
SessionClosed ==
    \E peer_id \in PeerIds :
        /\ on_session_closed(peer_id)
        /\ UNCHANGED <<stageVars, otherVars>>

\* on_response importing the response as a broadcast
on_response_as_broadcast(req, ok, txs) ==
    /\ handled' = Handled(IF ok THEN "RequestResolved" ELSE "RequestFailed", req.peer_id)
    /\ IF ok
       THEN import_transactions(req.peer_id, txs, TRUE)
       ELSE /\ txs = <<>>
            /\ reports' = <<req.peer_id>>
            /\ UNCHANGED <<peers, transactions_by_peers, pool_imports>>
    /\ sent' = <<>>
    /\ propagated' = {}
    /\ UNCHANGED <<syncState, pool>>

\* poll: the arms of the match on a ready response of the in-flight request req
on_response(req, ok, txs) ==
    /\ handled' = Handled(IF ok THEN "RequestResolved" ELSE "RequestFailed", req.peer_id)
    /\ IF ok
       THEN import_transactions(req.peer_id, txs, FALSE)
       ELSE /\ txs = <<>>
            /\ reports' = <<req.peer_id>>
            /\ UNCHANGED <<peers, transactions_by_peers, pool_imports>>
    /\ sent' = <<>>
    /\ propagated' = {}
    /\ UNCHANGED <<syncState, pool>>

\* poll: one in-flight request resolves; with transactions they are imported as a
\* Response, with an error or a dropped channel the peer is reported
RequestResolved ==
    \E idx \in DOMAIN inflight_requests, ok \in BOOLEAN,
       txs \in SeqsUpTo(WireTxs, MaxMsgLen) :
        /\ inflight_requests' = [i \in 1..(Len(inflight_requests) - 1) |->
                                    IF i < idx THEN inflight_requests[i]
                                    ELSE inflight_requests[i + 1]]
        /\ on_response(inflight_requests[idx], ok, txs)
        /\ UNCHANGED <<stageVars, otherVars>>

\* on_import leaving the entry of a failed import in transactions_by_peers
on_import_keeping_failed(idx, ok) ==
    LET hash == pool_imports[idx]
        senders == IF hash \in DOMAIN transactions_by_peers
                   THEN transactions_by_peers[hash] ELSE <<>>
    IN  /\ handled' = Handled("ImportFinished", 0)
        /\ pool_imports' = [i \in 1..(Len(pool_imports) - 1) |->
                               IF i < idx THEN pool_imports[i] ELSE pool_imports[i + 1]]
        /\ IF ok
           THEN /\ pool' = pool \cup {hash}
                /\ transactions_by_peers' = Without(transactions_by_peers, {hash})
                /\ reports' = <<>>
           ELSE /\ reports' = senders
                /\ UNCHANGED <<pool, transactions_by_peers>>
        /\ sent' = <<>>
        /\ propagated' = {}
        /\ UNCHANGED <<syncState, peers, inflight_requests>>

\* poll: the import future at idx of pool_imports is ready with Ok (ok) or Err
on_import(idx, ok) ==
    LET hash == pool_imports[idx]
        senders == IF hash \in DOMAIN transactions_by_peers
                   THEN transactions_by_peers[hash] ELSE <<>>
    IN  /\ handled' = Handled("ImportFinished", 0)
        /\ pool_imports' = [i \in 1..(Len(pool_imports) - 1) |->
                               IF i < idx THEN pool_imports[i] ELSE pool_imports[i + 1]]
        /\ transactions_by_peers' = Without(transactions_by_peers, {hash})
        /\ IF ok
           THEN /\ pool' = pool \cup {hash}
                /\ reports' = <<>>
           ELSE /\ reports' = senders
                /\ UNCHANGED pool
        /\ sent' = <<>>
        /\ propagated' = {}
        /\ UNCHANGED <<syncState, peers, inflight_requests>>

\* poll: one pool import finishes; on_good_import for Ok(hash), where the pool holds the
\* transaction, on_bad_import for Err
ImportFinished ==
    \E idx \in DOMAIN pool_imports, ok \in BOOLEAN :
        /\ on_import(idx, ok)
        /\ UNCHANGED <<stageVars, otherVars>>

\* a transaction submitted locally enters the pool
LocalTransaction ==
    \E hash \in TxHashes \ pool :
        /\ handled' = Handled("LocalTransaction", 0)
        /\ pool' = pool \cup {hash}
        /\ sent' = <<>>
        /\ reports' = <<>>
        /\ propagated' = {}
        /\ UNCHANGED <<syncState, peers, transactions_by_peers, pool_imports,
                       inflight_requests>>
        /\ UNCHANGED <<stageVars, otherVars>>

\* SyncStateUpdater::update_sync_state, called by the pipeline
UpdateSyncState ==
    \E state \in {"Idle", "Downloading", "Synced"} :
        /\ syncState' = state
        /\ handled' = Handled("UpdateSyncState", 0)
        /\ sent' = <<>>
        /\ reports' = <<>>
        /\ propagated' = {}
        /\ UNCHANGED <<pool, peers, transactions_by_peers, pool_imports,
                       inflight_requests>>
        /\ UNCHANGED <<stageVars, otherVars>>

(***************************************************************************)
(* TransactionsManager::poll: the streams are drained one after the other  *)
(***************************************************************************)
\* poll draining the transaction events before the network events
PollOrderEventsFirst ==
    <<"transaction_events", "network_events", "command_rx", "inflight_requests",
      "pool_imports", "pending_transactions">>

\* the order in which poll drains its sources
PollOrder ==
    <<"network_events", "command_rx", "transaction_events", "inflight_requests",
      "pool_imports", "pending_transactions">>

\* the streams whose ready items are queued
Streams == {"network_events", "command_rx", "transaction_events", "pending_transactions"}

\* the number of ready items of each stream
ReadyItems ==
    [source \in Streams |->
        CASE source = "network_events" -> Len(network_events)
          [] source = "command_rx" -> Len(command_rx)
          [] source = "transaction_events" -> Len(transaction_events)
          [] source = "pending_transactions" -> Len(pending_transactions)]

\* poll is not running and nothing is ready
PollIdle ==
    /\ network_events = <<>>
    /\ command_rx = <<>>
    /\ transaction_events = <<>>
    /\ pending_transactions = <<>>
    /\ polling = 0
    /\ req_idx = 0
    /\ polled = <<>>
    /\ ready = [source \in Streams |-> 0]
    /\ arrivals = 0
    /\ request_polls = <<>>

\* another task makes an item ready: the network a NetworkEvent or a
\* NetworkTransactionEvent, a TransactionsHandle a command, the pool a pending hash
ItemReady ==
    /\ arrivals < MaxArrivals
    /\ arrivals' = arrivals + 1
    /\ \/ /\ Len(network_events) < MaxReady
          /\ \E event \in {"SessionEstablished", "SessionClosed"}, peer_id \in PeerIds :
                network_events' = Append(network_events,
                                         [event |-> event, peer_id |-> peer_id])
          /\ UNCHANGED <<command_rx, transaction_events, pending_transactions>>
       \/ /\ Len(command_rx) < MaxReady
          /\ \E hash \in TxHashes : command_rx' = Append(command_rx, hash)
          /\ UNCHANGED <<network_events, transaction_events, pending_transactions>>
       \/ /\ Len(transaction_events) < MaxReady
          /\ \E event \in {"IncomingTransactions", "IncomingPooledTransactionHashes",
                            "GetPooledTransactions"}, peer_id \in PeerIds :
                transaction_events' = Append(transaction_events,
                                             [event |-> event, peer_id |-> peer_id])
          /\ UNCHANGED <<network_events, command_rx, pending_transactions>>
       \/ /\ Len(pending_transactions) < MaxReady
          /\ \E hash \in pool : pending_transactions' = Append(pending_transactions, hash)
          /\ UNCHANGED <<network_events, command_rx, transaction_events>>
    /\ UNCHANGED <<polling, req_idx, polled, ready, request_polls>>
    /\ UNCHANGED <<stageVars, txVars, consensusVars, besidePoll>>

\* poll is called
PollStart ==
    /\ polling = 0
    /\ polling' = 1
    /\ req_idx' = Len(inflight_requests)
    /\ polled' = <<>>
    /\ request_polls' = <<>>
    /\ ready' = ReadyItems
    /\ UNCHANGED <<network_events, command_rx, transaction_events, pending_transactions,
                   arrivals>>
    /\ UNCHANGED <<stageVars, txVars, consensusVars, besidePoll>>

\* a loop of poll found nothing more that is ready: poll goes on with the next source
\* and, after the last one, returns Poll::Pending
PollNextSource ==
    /\ polling' = IF polling = Len(PollOrder) THEN 0 ELSE polling + 1
    /\ req_idx' = Len(inflight_requests)
    /\ UNCHANGED <<ready, arrivals, polled, request_polls>>
    /\ UNCHANGED <<stageVars, txVars, consensusVars, besidePoll>>

\* the item of source was handled in this poll
Polled(source) ==
    /\ polled' = Append(polled, source)
    /\ UNCHANGED <<polling, ready, arrivals>>
    /\ UNCHANGED <<stageVars, consensusVars, besidePoll>>

\* poll: while let Poll::Ready(Some(event)) = this.network_events.poll_next_unpin(cx)
PollNetworkEvents ==
    /\ polling > 0
    /\ PollOrder[polling] = "network_events"
    /\ IF network_events # <<>>
       THEN /\ IF Head(network_events).event = "SessionEstablished"
               THEN on_session_established(Head(network_events).peer_id)
               ELSE on_session_closed(Head(network_events).peer_id)
            /\ network_events' = Tail(network_events)
            /\ Polled("network_events")
            /\ UNCHANGED <<req_idx, request_polls>>
       ELSE /\ PollNextSource
            /\ UNCHANGED network_events
    /\ UNCHANGED <<command_rx, transaction_events, pending_transactions>>

\* poll: while let Poll::Ready(Some(cmd)) = this.command_rx.poll_next_unpin(cx)
PollCommands ==
    /\ polling > 0
    /\ PollOrder[polling] = "command_rx"
    /\ IF command_rx # <<>>
       THEN /\ on_command(Head(command_rx))
            /\ command_rx' = Tail(command_rx)
            /\ Polled("command_rx")
            /\ UNCHANGED <<req_idx, request_polls>>
       ELSE /\ PollNextSource
            /\ UNCHANGED command_rx
    /\ UNCHANGED <<network_events, transaction_events, pending_transactions>>

\* poll: while let Poll::Ready(Some(event)) = this.transaction_events.poll_next_unpin(cx)
PollTransactionEvents ==
    /\ polling > 0
    /\ PollOrder[polling] = "transaction_events"
    /\ IF transaction_events # <<>>
       THEN /\ LET event == Head(transaction_events)
               IN  CASE event.event = "IncomingTransactions" ->
                            \E msg \in SeqsUpTo(WireTxs, MaxMsgLen) :
                                on_incoming_transactions(event.peer_id, msg)
                     [] event.event = "IncomingPooledTransactionHashes" ->
                            \E msg \in SeqsUpTo(TxHashes, MaxMsgLen), sendable \in BOOLEAN :
                                /\ sendable => Len(inflight_requests) < MaxInflight
                                /\ on_new_pooled_transaction_hashes(event.peer_id, msg,
                                                                    sendable)
                     [] event.event = "GetPooledTransactions" ->
                            \E request \in SeqsUpTo(TxHashes, MaxMsgLen) :
                                on_get_pooled_transactions(event.peer_id, request)
            /\ transaction_events' = Tail(transaction_events)
            /\ Polled("transaction_events")
            /\ UNCHANGED <<req_idx, request_polls>>
       ELSE /\ PollNextSource
            /\ UNCHANGED transaction_events
    /\ UNCHANGED <<network_events, command_rx, pending_transactions>>

\* Vec::swap_remove, with indices from 1
swap_remove(v, idx) ==
    [i \in 1..(Len(v) - 1) |-> IF i = idx THEN v[Len(v)] ELSE v[i]]

\* the record of req.response.poll_unpin(cx): the request, the arm taken, the response
RequestPoll(req, outcome, txs) == [req |-> req, outcome |-> outcome, txs |-> txs]

\* poll: for idx in (0..this.inflight_requests.len()).rev(), one iteration
PollRequests ==
    /\ polling > 0
    /\ PollOrder[polling] = "inflight_requests"
    /\ IF req_idx >= 1
       THEN LET req == inflight_requests[req_idx]
                rest == swap_remove(inflight_requests, req_idx)
            IN  /\ req_idx' = req_idx - 1
                /\ \/ /\ inflight_requests' = Append(rest, req)
                      /\ request_polls' = Append(request_polls, RequestPoll(req, "Pending", <<>>))
                      /\ UNCHANGED <<syncState, pool, peers, transactions_by_peers,
                                     pool_imports, handled, sent, reports, propagated>>
                      /\ UNCHANGED <<polling, polled, ready, arrivals>>
                      /\ UNCHANGED <<stageVars, consensusVars, besidePoll>>
                   \/ /\ inflight_requests' = rest
                      /\ \E ok \in BOOLEAN, txs \in SeqsUpTo(WireTxs, MaxMsgLen) :
                            /\ on_response(req, ok, txs)
                            /\ request_polls' =
                                   Append(request_polls,
                                          RequestPoll(req, IF ok THEN "Ok" ELSE "Err", txs))
                      /\ Polled("inflight_requests")
       ELSE PollNextSource
    /\ UNCHANGED <<network_events, command_rx, transaction_events, pending_transactions>>

\* poll: while let Poll::Ready(Some(import_res)) = this.pool_imports.poll_next_unpin(cx)
PollImports ==
    /\ polling > 0
    /\ PollOrder[polling] = "pool_imports"
    /\ \/ /\ \E idx \in DOMAIN pool_imports, ok \in BOOLEAN : on_import(idx, ok)
          /\ Polled("pool_imports")
          /\ UNCHANGED <<req_idx, request_polls>>
       \/ PollNextSource
    /\ UNCHANGED <<network_events, command_rx, transaction_events, pending_transactions>>

\* poll: the drain of pending_transactions into new_txs and on_new_transactions(new_txs)
PollPendingTransactions ==
    /\ polling > 0
    /\ PollOrder[polling] = "pending_transactions"
    /\ pending_transactions' = <<>>
    /\ polling' = IF polling = Len(PollOrder) THEN 0 ELSE polling + 1
    /\ req_idx' = Len(inflight_requests)
    /\ IF pending_transactions # <<>>
       THEN /\ on_pending_transactions(pending_transactions)
            /\ polled' = polled \o [i \in DOMAIN pending_transactions |->
                                        "pending_transactions"]
       ELSE UNCHANGED <<txVars, polled>>
    /\ UNCHANGED <<ready, arrivals, request_polls>>
    /\ UNCHANGED <<stageVars, consensusVars, besidePoll>>
    /\ UNCHANGED <<network_events, command_rx, transaction_events>>

(***************************************************************************)
(* The node and import commands: forkchoice state of a file import         *)
(***************************************************************************)
\* Option<H256>::None
NoHash == -1

TipHashes == 1..MaxTipHash

\* ForkchoiceState with the three hashes set to hash
ForkchoiceState(hash) ==
    [head_block_hash |-> hash, safe_block_hash |-> hash, finalized_block_hash |-> hash]

\* no forkchoice channel, or nothing read from it
NoForkchoice == ForkchoiceState(NoHash)

\* the tip sent when the user's tip is kept over that of the file
keep_user_tip(file_tip, user_tip) == IF user_tip # NoHash THEN user_tip ELSE file_tip

\* override the tip: self.tip = Some(file_client.tip())
override_tip(file_tip, user_tip) == file_tip

\* no command runs
CliIdle ==
    /\ command = "node"
    /\ blocks = NoHash
    /\ debug_tip = NoHash
    /\ file_client = NoHash
    /\ forkchoice_state = NoForkchoice
    /\ cli = "done"
    /\ observed = NoForkchoice

\* FileClient::new(path): the blocks of the file are read, its tip is the highest block
FileClientNew ==
    /\ cli = "start"
    /\ command \in {"import", "node --import"}
    /\ file_client' = blocks
    /\ cli' = "file_client"
    /\ UNCHANGED <<command, blocks, debug_tip, forkchoice_state, observed>>
    /\ UNCHANGED <<stageVars, txVars, consensusVars, besideCli>>

\* let tip = file_client.tip() of import, self.tip = Some(file_client.tip()) of node
OverrideTip ==
    /\ cli = "file_client"
    /\ debug_tip' = override_tip(file_client, debug_tip)
    /\ cli' = "tip"
    /\ UNCHANGED <<command, blocks, file_client, forkchoice_state, observed>>
    /\ UNCHANGED <<stageVars, txVars, consensusVars, besideCli>>

\* init_consensus, and the same lines of ImportCommand::execute: the builder makes the
\* channel with the default state, of zero hashes; the tip is sent when there is one
InitConsensus ==
    /\ \/ cli = "tip"
       \/ cli = "start" /\ command = "node"
    /\ forkchoice_state' = IF debug_tip # NoHash THEN ForkchoiceState(debug_tip)
                           ELSE ForkchoiceState(0)
    /\ cli' = "consensus"
    /\ UNCHANGED <<command, blocks, debug_tip, file_client, observed>>
    /\ UNCHANGED <<stageVars, txVars, consensusVars, besideCli>>

\* build_import_pipeline, build_networked_pipeline
BuildPipeline ==
    /\ cli = "consensus"
    /\ cli' = "pipeline"
    /\ UNCHANGED <<command, blocks, debug_tip, file_client, forkchoice_state, observed>>
    /\ UNCHANGED <<stageVars, txVars, consensusVars, besideCli>>

\* pipeline.run(db)
PipelineRun ==
    /\ cli = "pipeline"
    /\ cli' = "running"
    /\ UNCHANGED <<command, blocks, debug_tip, file_client, forkchoice_state, observed>>
    /\ UNCHANGED <<stageVars, txVars, consensusVars, besideCli>>

\* Consensus::fork_choice_state: a reader takes a receiver and reads the current value
ForkChoiceState ==
    /\ forkchoice_state # NoForkchoice
    /\ observed' = forkchoice_state
    /\ UNCHANGED <<command, blocks, debug_tip, file_client, forkchoice_state, cli>>
    /\ UNCHANGED <<stageVars, txVars, consensusVars, besideCli>>

(***************************************************************************)
(* TestHeaderDownloader: the stream of header batches                      *)
(***************************************************************************)
\* the headers of S by ascending number: headers.sort_unstable_by_key(|h| h.number)
sort_by_number(S) == Ascending(S)

\* TestHeaderDownloader::new with a client that holds the headers responses
TestHeaderDownloader(responses, limit, size) ==
    [responses |-> responses, limit |-> limit, batch_size |-> size,
     buffer |-> <<>>, done |-> FALSE, queued_headers |-> <<>>]

\* TestHeadersClient::get_headers_with_priority and the Ok arm of
\* TestDownload::poll_next: the first limit headers are drained, the head is
\* skipped, the rest is sorted and pushed on the buffer
Fetch(d) ==
    LET len == Min(Len(d.responses), d.limit)
        resp == SubSeq(d.responses, 1, len)
        headers == sort_by_number({resp[i] : i \in 2..len})
    IN  [d EXCEPT !.responses = SubSeq(d.responses, len + 1, Len(d.responses)),
                  !.buffer = d.buffer \o headers,
                  !.done = TRUE]

\* the loop of TestHeaderDownloader::poll_next around TestDownload::poll_next, up to
\* the batch it returns: buffer.pop() takes the last header of the buffer
RECURSIVE DownloadLoop(_)
DownloadLoop(d) ==
    IF Len(d.queued_headers) = d.batch_size THEN d
    ELSE IF d.buffer # <<>>
    THEN DownloadLoop([d EXCEPT !.buffer = SubSeq(d.buffer, 1, Len(d.buffer) - 1),
                                !.queued_headers = Append(d.queued_headers,
                                                          d.buffer[Len(d.buffer)])])
    ELSE IF d.done THEN d
    ELSE DownloadLoop(Fetch(d))

\* no downloader
DlIdle ==
    /\ downloader = TestHeaderDownloader(<<>>, 1, 1)
    /\ yielded = <<>>

\* Stream::poll_next of TestHeaderDownloader: the next batch, queued_headers is taken
DownloaderPollNext ==
    /\ Len(yielded) < MaxBatches
    /\ LET d == DownloadLoop(downloader)
       IN  /\ yielded' = Append(yielded, d.queued_headers)
           /\ downloader' = [d EXCEPT !.queued_headers = <<>>]
    /\ UNCHANGED <<stageVars, txVars, consensusVars, besideDl>>

(***************************************************************************)
(* insert_block                                                            *)
(***************************************************************************)
\* parent_tx_num_transition_id = None
NoParent == [tx_num |-> -1, transition_id |-> -1]

\* the total difficulty insert_block stores for a block without block reward
FIXED_TD == "58_750_000_000_000_000_000_000"

\* the lookup that takes the previous block's first tx id for the block's own
parent_start_tx_id(number, parent) ==
    IF parent # NoParent THEN [err |-> None, tx_num |-> parent.tx_num,
                               transition_id |-> parent.transition_id]
    ELSE IF number = 0 THEN [err |-> None, tx_num |-> 0, transition_id |-> 0]
    ELSE IF number - 1 \notin DOMAIN Headers
    THEN [err |-> "BlockNumber", tx_num |-> 0, transition_id |-> 0]
    ELSE IF number - 1 \notin DOMAIN BlockBodies
    THEN [err |-> "BlockBody", tx_num |-> 0, transition_id |-> 0]
    ELSE IF number - 1 \notin DOMAIN BlockTransitionIndex
    THEN [err |-> "BlockTransition", tx_num |-> 0, transition_id |-> 0]
    ELSE [err |-> None,
          tx_num |-> BlockBodies[number - 1].start_tx_id,
          transition_id |-> BlockTransitionIndex[number - 1]]

\* the first tx id and transition id of the block: those given for the parent, zero
\* for genesis, else those after the previous block in the database, or the error
\* of the lookup that fails
parent_tx_num_transition_id(number, parent) ==
    IF parent # NoParent THEN [err |-> None, tx_num |-> parent.tx_num,
                               transition_id |-> parent.transition_id]
    ELSE IF number = 0 THEN [err |-> None, tx_num |-> 0, transition_id |-> 0]
    ELSE IF number - 1 \notin DOMAIN Headers
    THEN [err |-> "BlockNumber", tx_num |-> 0, transition_id |-> 0]
    ELSE IF number - 1 \notin DOMAIN BlockBodies
    THEN [err |-> "BlockBody", tx_num |-> 0, transition_id |-> 0]
    ELSE IF number - 1 \notin DOMAIN BlockTransitionIndex
    THEN [err |-> "BlockTransition", tx_num |-> 0, transition_id |-> 0]
    ELSE [err |-> None,
          tx_num |-> BlockBodies[number - 1].start_tx_id + BlockBodies[number - 1].tx_count,
          transition_id |-> BlockTransitionIndex[number - 1]]

\* the transition id after the block, without the block reward
block_transition_without_reward(transition_id, tx_count, reward) == transition_id + tx_count

\* the transition id after the block: one transition per transaction and one for the
\* block reward
block_transition(transition_id, tx_count, reward) ==
    transition_id + tx_count + (IF reward THEN 1 ELSE 0)

\* the table t with the entries of the block's transactions: entry(i) at first + i
PutAll(t, first, count, entry(_)) ==
    [id \in (DOMAIN t) \cup (first..(first + count - 1)) |->
        IF id >= first /\ id < first + count THEN entry(id - first) ELSE t[id]]

\* the record of an insert_block call
Inserted(block, reward, parent, result) ==
    [number |-> block.number, tx_count |-> Len(block.body), has_block_reward |-> reward,
     parent |-> parent, result |-> result,
     overridden |-> inserted.overridden \/ parent # NoParent]

\* nothing was inserted
InsertIdle ==
    /\ BlockTransitionIndex = EmptyTable
    /\ TxTransitionIndex = EmptyTable
    /\ inserted = [number |-> 0, tx_count |-> 0, has_block_reward |-> FALSE,
                   parent |-> NoParent, result |-> "none", overridden |-> FALSE]

\* insert_block(tx, block, has_block_reward, parent_tx_num_transition_id)
insert_block(block, reward, parent) ==
    LET start == parent_tx_num_transition_id(block.number, parent)
        count == Len(block.body)
    IN  IF \E i \in DOMAIN block.body : ~block.body[i].valid
        THEN \* into_ecrecovered().unwrap() panics and the write transaction is lost
             /\ inserted' = Inserted(block, reward, parent, "panic")
             /\ UNCHANGED <<Headers, HeaderTD, BlockBodies, TxSenders, Transactions,
                            TxTransitionIndex, BlockTransitionIndex>>
        ELSE /\ Headers' = Put(Headers, block.number,
                               [number |-> block.number, difficulty |-> block.difficulty])
             /\ HeaderTD' = Put(HeaderTD, block.number, IF reward THEN "0" ELSE FIXED_TD)
             /\ IF start.err # None
                THEN /\ inserted' = Inserted(block, reward, parent, start.err)
                     /\ UNCHANGED <<BlockBodies, TxSenders, Transactions,
                                    TxTransitionIndex, BlockTransitionIndex>>
                ELSE /\ inserted' = Inserted(block, reward, parent, "Ok")
                     /\ BlockBodies' = Put(BlockBodies, block.number,
                                           [start_tx_id |-> start.tx_num,
                                            tx_count |-> count])
                     /\ TxSenders' = PutAll(TxSenders, start.tx_num, count,
                                            LAMBDA i : recover_signer(block.body[i + 1]))
                     /\ Transactions' = PutAll(Transactions, start.tx_num, count,
                                               LAMBDA i : block.body[i + 1])
                     /\ TxTransitionIndex' = PutAll(TxTransitionIndex, start.tx_num, count,
                                                    LAMBDA i : start.transition_id + i)
                     /\ BlockTransitionIndex' =
                            Put(BlockTransitionIndex, block.number,
                                block_transition(start.transition_id, count, reward))

\* the blocks a caller inserts: the next block of the chain, or the one after it, with
\* transactions of which the last may have an invalid signature
NextBlocks ==
    LET next == Cardinality(DOMAIN BlockBodies)
    IN  [number : {n \in {next, next + 1} : n <= MaxInsertBlock},
         difficulty : {1},
         body : {body \in SeqsUpTo([payload : {0}, valid : BOOLEAN], MaxBodyLen) :
                    \A i \in DOMAIN body : i < Len(body) => body[i].valid}]

\* a call of insert_block, or of insert_canonical_block when no parent is given
InsertBlock ==
    \E block \in NextBlocks, reward \in BOOLEAN,
       parent \in {NoParent} \cup {[tx_num |-> id, transition_id |-> id] : id \in 0..MaxParentId} :
        /\ insert_block(block, reward, parent)
        /\ UNCHANGED <<stage, commit_threshold, batch_size, checkpoint, last, unwound,
                       committed>>
        /\ UNCHANGED <<txVars, consensusVars, besideInsert>>

(***************************************************************************)
(* clique: recover_header_signer                                           *)
(***************************************************************************)
\* the fixed number of extra-data suffix bytes reserved for the signer seal
EXTRA_SEAL == 65

\* extra_data of len bytes: vanity bytes followed by seal bytes
ExtraData(len, vanity, seal_byte) ==
    [i \in 1..len |-> IF i > len - EXTRA_SEAL THEN seal_byte ELSE vanity]

\* the headers recover_header_signer is called with
CliqueHeaders ==
    {[extra_data |-> ExtraData(len, vanity, seal_byte), hash |-> h] :
        len \in 0..MaxExtraData, vanity \in 0..MaxByte, seal_byte \in 0..MaxByte,
        h \in 0..MaxHeaderHash}

\* secp256k1::recover: fails for a signature with r = 0, else gives the address that
\* signed the hash
secp256k1_recover(signature, h) ==
    IF signature[1] = 0 THEN NoSigner ELSE ((signature[1] + h) % MaxAddr) + 1

\* the first EXTRA_SEAL bytes of extra_data
seal_from_front(extra_data, start) == SubSeq(extra_data, 1, EXTRA_SEAL)

\* header.extra_data[start..]
seal(extra_data, start) == SubSeq(extra_data, start + 1, Len(extra_data))

\* recover_header_signer(header)
recover_header_signer(header) ==
    LET extra_data_len == Len(header.extra_data)
    IN  IF extra_data_len < EXTRA_SEAL
        THEN [err |-> "MissingSignature", extra_data |-> header.extra_data]
        ELSE LET signature == seal(header.extra_data, extra_data_len - EXTRA_SEAL)
             IN  IF Len(signature) # 65
                 THEN [err |-> "MissingSignature", extra_data |-> header.extra_data]
                 ELSE IF secp256k1_recover(signature, header.hash) = NoSigner
                 THEN [err |-> "HeaderSignerRecovery", signature |-> signature,
                       hash |-> header.hash]
                 ELSE [err |-> None,
                       signer |-> secp256k1_recover(signature, header.hash)]

\* recover_header_signer was not called
CliqueIdle ==
    /\ sealed_header = [extra_data |-> <<>>, hash |-> 0]
    /\ signer_result = [err |-> "none"]

\* a call of recover_header_signer
RecoverHeaderSigner ==
    \E header \in CliqueHeaders :
        /\ sealed_header' = header
        /\ signer_result' = recover_header_signer(header)
        /\ UNCHANGED <<stageVars, txVars, consensusVars, besideClique>>

(***************************************************************************)
(* MeteredStream                                                           *)
(***************************************************************************)
\* the two ends of every duplex stream
MeteredStreams == (1..MaxPairs) \X {"client", "server"}

\* the other end of the duplex stream
PeerOf(s) == <<s[1], IF s[2] = "client" THEN "server" ELSE "client">>

\* the meter of a stream: the clients share one, the servers share one
MeterOf(s) == s[2]

\* new streams with new meters
MeterIdle ==
    /\ stream_counts = [m \in {"client", "server"} |-> [ingress |-> 0, egress |-> 0]]
    /\ duplex = [s \in MeteredStreams |-> [inbox |-> 0, state |-> "open"]]
    /\ inner_io = [s \in MeteredStreams |-> [read |-> 0, written |-> 0]]
    /\ io = [op |-> "none", outcome |-> "none", n |-> 0]

\* inner.poll_read(cx, buf): the outcome, and buf.filled().len() after it
inner_poll_read(s, init_num_bytes, capacity) ==
    IF duplex[s].state = "reset"
    THEN [outcome |-> "Err", filled |-> init_num_bytes]
    ELSE IF duplex[s].inbox = 0 /\ capacity > init_num_bytes
              /\ duplex[PeerOf(s)].state = "open"
    THEN [outcome |-> "Pending", filled |-> init_num_bytes]
    ELSE [outcome |-> "Ok",
          filled |-> init_num_bytes + Min(capacity - init_num_bytes, duplex[s].inbox)]

\* inner.poll_write(cx, buf): the outcome, and the number of bytes taken
inner_poll_write(s, len) ==
    IF duplex[s].state = "reset" \/ duplex[PeerOf(s)].state # "open"
    THEN [outcome |-> "Err", num_bytes |-> 0]
    ELSE IF len > 0 /\ duplex[PeerOf(s)].inbox = MaxPipe
    THEN [outcome |-> "Pending", num_bytes |-> 0]
    ELSE [outcome |-> "Ok", num_bytes |-> Min(len, MaxPipe - duplex[PeerOf(s)].inbox)]

\* the whole of buf.filled() counted as read
filled_len(filled, init_num_bytes) == filled

\* buf.filled().len() - init_num_bytes
num_bytes_read(filled, init_num_bytes) == filled - init_num_bytes

\* MeteredStream::poll_read with a buffer of the given capacity, partly filled
poll_read(s, init_num_bytes, capacity) ==
    LET r == inner_poll_read(s, init_num_bytes, capacity)
        taken == r.filled - init_num_bytes
    IN  /\ io' = [op |-> "read", outcome |-> r.outcome, n |-> taken]
        /\ duplex' = [duplex EXCEPT ![s].inbox = @ - taken]
        /\ inner_io' = [inner_io EXCEPT ![s].read = @ + taken]
        /\ IF r.outcome = "Ok"
           THEN stream_counts' = [stream_counts EXCEPT ![MeterOf(s)].ingress =
                                     @ + num_bytes_read(r.filled, init_num_bytes)]
           ELSE UNCHANGED stream_counts

\* MeteredStream::poll_write of len bytes
poll_write(s, len) ==
    LET r == inner_poll_write(s, len)
    IN  /\ io' = [op |-> "write", outcome |-> r.outcome, n |-> r.num_bytes]
        /\ duplex' = [duplex EXCEPT ![PeerOf(s)].inbox = @ + r.num_bytes]
        /\ inner_io' = [inner_io EXCEPT ![s].written = @ + r.num_bytes]
        /\ IF r.outcome = "Ok"
           THEN stream_counts' = [stream_counts EXCEPT ![MeterOf(s)].egress =
                                     @ + r.num_bytes]
           ELSE UNCHANGED stream_counts

\* a task reads from a stream it holds
PollRead ==
    \E s \in MeteredStreams, capacity \in 0..MaxBuf :
        \E init_num_bytes \in 0..capacity :
            /\ duplex[s].state # "shutdown"
            /\ poll_read(s, init_num_bytes, capacity)
            /\ UNCHANGED <<stageVars, txVars, consensusVars, besideMeter>>

\* a task writes to a stream it holds
PollWrite ==
    \E s \in MeteredStreams, len \in 0..MaxBuf :
        /\ duplex[s].state # "shutdown"
        /\ stream_counts[MeterOf(s)].egress + len <= MaxTraffic
        /\ poll_write(s, len)
        /\ UNCHANGED <<stageVars, txVars, consensusVars, besideMeter>>

\* poll_shutdown, after which the task drops the stream
PollShutdown ==
    \E s \in MeteredStreams :
        /\ duplex[s].state = "open"
        /\ duplex' = [duplex EXCEPT ![s].state = "shutdown"]
        /\ UNCHANGED <<stream_counts, inner_io, io>>
        /\ UNCHANGED <<stageVars, txVars, consensusVars, besideMeter>>

\* the connection under a stream breaks: the reads and writes of both its ends fail
\* from now on
ConnectionReset ==
    \E s \in MeteredStreams :
        /\ duplex[s].state = "open"
        /\ duplex[PeerOf(s)].state = "open"
        /\ duplex' = [duplex EXCEPT ![s].state = "reset", ![PeerOf(s)].state = "reset"]
        /\ UNCHANGED <<stream_counts, inner_io, io>>
        /\ UNCHANGED <<stageVars, txVars, consensusVars, besideMeter>>

(***************************************************************************)
(* bin/reth node: NodeState and the network events handle_events is given  *)
(***************************************************************************)
\* a usize is kept as USIZE_LIMBS limbs of 16 bits, the lowest first
LIMB == 65536

USIZE_LIMBS == 4

\* the usize of a number below LIMB
usize(n) == [i \in 1..USIZE_LIMBS |-> IF i = 1 THEN n ELSE 0]

\* usize::MAX
USIZE_MAX == [i \in 1..USIZE_LIMBS |-> LIMB - 1]

\* v + 1 modulo 2^64
wrapping_add_one(v) ==
    LET carried == {i \in 1..USIZE_LIMBS : \A j \in 1..i : v[j] = LIMB - 1}
    IN  [i \in 1..USIZE_LIMBS |->
            IF i \in carried THEN 0
            ELSE IF i = 1 \/ (i - 1) \in carried THEN v[i] + 1
            ELSE v[i]]

\* v - 1 modulo 2^64
wrapping_sub_one(v) ==
    LET borrowed == {i \in 1..USIZE_LIMBS : \A j \in 1..i : v[j] = 0}
    IN  [i \in 1..USIZE_LIMBS |->
            IF i \in borrowed THEN LIMB - 1
            ELSE IF i = 1 \/ (i - 1) \in borrowed THEN v[i] - 1
            ELSE v[i]]

NetworkEvent(event, peer_id) == [event |-> event, peer_id |-> peer_id]

\* NodeState::default, no session, no listener
NodeIdle ==
    /\ sessions = {}
    /\ listening = FALSE
    /\ node_events = <<>>
    /\ connected_peers = usize(0)
    /\ handle_events = "running"
    /\ overflow_checks = FALSE
    /\ event_counts = [established |-> 0, closed |-> 0]

\* the network emits event to the listener, if there is one
Emit(event) ==
    /\ Len(node_events) + event_counts.established + event_counts.closed < MaxNodeEvents
    /\ node_events' = IF listening THEN Append(node_events, event) ELSE node_events

\* the network, running since start_network, establishes a session
NetworkSessionEstablished ==
    \E peer_id \in PeerIds \ sessions :
        /\ sessions' = sessions \cup {peer_id}
        /\ Emit(NetworkEvent("SessionEstablished", peer_id))
        /\ UNCHANGED <<listening, connected_peers, handle_events, overflow_checks, event_counts>>
        /\ UNCHANGED <<stageVars, txVars, consensusVars, besideNode>>

\* the network closes an established session
NetworkSessionClosed ==
    \E peer_id \in sessions :
        /\ sessions' = sessions \ {peer_id}
        /\ Emit(NetworkEvent("SessionClosed", peer_id))
        /\ UNCHANGED <<listening, connected_peers, handle_events, overflow_checks, event_counts>>
        /\ UNCHANGED <<stageVars, txVars, consensusVars, besideNode>>

\* build_networked_pipeline: network.event_listener(), the stream handle_events reads
EventListener ==
    /\ ~listening
    /\ listening' = TRUE
    /\ UNCHANGED <<sessions, node_events, connected_peers, handle_events,
                   overflow_checks, event_counts>>
    /\ UNCHANGED <<stageVars, txVars, consensusVars, besideNode>>

\* NodeState::handle_network_event: += 1 and -= 1 on a usize panic on overflow in a
\* build with overflow checks and wrap around in a build without them
handle_network_event(event) ==
    /\ event_counts' = IF event.event = "SessionEstablished"
               THEN [event_counts EXCEPT !.established = @ + 1]
               ELSE [event_counts EXCEPT !.closed = @ + 1]
    /\ IF event.event = "SessionEstablished"
       THEN IF connected_peers = USIZE_MAX /\ overflow_checks
            THEN /\ handle_events' = "panicked"
                 /\ UNCHANGED connected_peers
            ELSE /\ connected_peers' = wrapping_add_one(connected_peers)
                 /\ UNCHANGED handle_events
       ELSE IF connected_peers = usize(0) /\ overflow_checks
            THEN /\ handle_events' = "panicked"
                 /\ UNCHANGED connected_peers
            ELSE /\ connected_peers' = wrapping_sub_one(connected_peers)
                 /\ UNCHANGED handle_events

\* handle_events: the next network event of the stream goes to the NodeState
HandleNetworkEvent ==
    /\ handle_events = "running"
    /\ node_events # <<>>
    /\ handle_network_event(Head(node_events))
    /\ node_events' = Tail(node_events)
    /\ UNCHANGED <<sessions, listening, overflow_checks>>
    /\ UNCHANGED <<stageVars, txVars, consensusVars, besideNode>>

(***************************************************************************)
(* rpc-types: Index, a string is the sequence of its characters            *)
(***************************************************************************)
NoIndex == -1

NoDigit == -1

LowerDigits == <<"0", "1", "2", "3", "4", "5", "6", "7", "8", "9",
                 "a", "b", "c", "d", "e", "f">>

UpperDigits == <<"0", "1", "2", "3", "4", "5", "6", "7", "8", "9",
                 "A", "B", "C", "D", "E", "F">>

\* the characters of the strings given to the deserializer
InputChars == {"0", "1", "9", "a", "f", "A", "x", "+"}

JsonString(chars) == [type |-> "string", str |-> chars, num |-> 0]

JsonNumber(n) == [type |-> "number", str |-> <<>>, num |-> n]

NoJson == [type |-> "none", str |-> <<>>, num |-> 0]

\* the JSON values a client can put where an Index is expected
JsonInputs ==
    {JsonString(chars) : chars \in SeqsUpTo(InputChars, MaxStrLen)}
        \cup {JsonNumber(n) : n \in 0..MaxJsonNumber}

IndexOk(value) == [result |-> "Ok", index |-> value]

IndexErr == [result |-> "Err", index |-> NoIndex]

NoResult == [result |-> "none", index |-> NoIndex]

\* format!("{:x}", n): lower-case hexadecimal without a prefix
RECURSIVE format_x(_)
format_x(n) ==
    IF n < 16 THEN <<LowerDigits[n + 1]>>
    ELSE Append(format_x(n \div 16), LowerDigits[(n % 16) + 1])

\* Index::serialize
serialize(idx) == JsonString(format_x(idx))

\* char::to_digit
to_digit(c, radix) ==
    IF \E i \in 1..radix : c \in {LowerDigits[i], UpperDigits[i]}
    THEN (CHOOSE i \in 1..radix : c \in {LowerDigits[i], UpperDigits[i]}) - 1
    ELSE NoDigit

\* the number the digits stand for; they are too few to overflow a usize
RECURSIVE digits_value(_, _, _)
digits_value(digits, radix, result) ==
    IF digits = <<>> THEN result
    ELSE digits_value(Tail(digits), radix, result * radix + to_digit(Head(digits), radix))

\* usize::from_str_radix: an optional plus sign, then one or more digits of the radix
from_str_radix(src, radix) ==
    LET digits == IF Len(src) > 1 /\ Head(src) = "+" THEN Tail(src) ELSE src
    IN  IF digits = <<>> \/ \E i \in DOMAIN digits : to_digit(digits[i], radix) = NoDigit
        THEN IndexErr
        ELSE IndexOk(digits_value(digits, radix, 0))

\* IndexVisitor::visit_u64
visit_u64(value) == IndexOk(value)

\* IndexVisitor::visit_str: hexadecimal after the prefix 0x, decimal without it
visit_str(value) ==
    IF Len(value) >= 2 /\ SubSeq(value, 1, 2) = <<"0", "x">>
    THEN from_str_radix(SubSeq(value, 3, Len(value)), 16)
    ELSE from_str_radix(value, 10)

\* Index::deserialize: deserialize_any hands a string to visit_str and a number to
\* visit_u64
deserialize(value) ==
    IF value.type = "string" THEN visit_str(value.str) ELSE visit_u64(value.num)

\* no Index was serialized or deserialized yet
IndexIdle ==
    /\ index = NoIndex
    /\ json = NoJson
    /\ parsed = NoResult

\* an Index is serialized to JSON
Serialize ==
    \E idx \in 0..MaxIndex :
        /\ index' = idx
        /\ json' = serialize(idx)
        /\ parsed' = NoResult
        /\ UNCHANGED <<stageVars, txVars, consensusVars, besideIndex>>

\* a client sends a JSON value where an Index is expected
Request ==
    \E value \in JsonInputs :
        /\ index' = NoIndex
        /\ json' = value
        /\ parsed' = NoResult
        /\ UNCHANGED <<stageVars, txVars, consensusVars, besideIndex>>

\* the JSON value is deserialized as an Index
Deserialize ==
    /\ json # NoJson
    /\ parsed = NoResult
    /\ parsed' = deserialize(json)
    /\ UNCHANGED <<index, json>>
    /\ UNCHANGED <<stageVars, txVars, consensusVars, besideIndex>>

\* the components of this section in their initial state
RestIdle ==
    /\ PollIdle /\ CliIdle /\ DlIdle /\ InsertIdle /\ CliqueIdle /\ MeterIdle
    /\ NodeIdle /\ IndexIdle

\* TransactionsManager::new
TxNew ==
    /\ syncState = "Idle"
    /\ pool = {}
    /\ peers = EmptyTable
    /\ transactions_by_peers = EmptyTable
    /\ pool_imports = <<>>
    /\ inflight_requests = <<>>
    /\ handled = Handled("new", 0)
    /\ sent = <<>>
    /\ reports = <<>>
    /\ propagated = {}

(***************************************************************************)
(* BeaconConsensus                                                         *)
(***************************************************************************)
EMPTY_OMMER_ROOT == "EMPTY_OMMER_ROOT"

\* the ommers hashes a header may carry
OmmerRoots == {EMPTY_OMMER_ROOT, "ommers"}

SealedHeaders ==
    [difficulty : 0..MaxHeaderDifficulty, nonce : 0..MaxNonce, ommers_hash : OmmerRoots]

\* chain_spec.fork(Hardfork::Paris).active_at_ttd(total_difficulty) for a Paris fork
\* that is conditioned on the terminal total difficulty
active_at_ttd(total_difficulty) == total_difficulty >= chain_spec.ttd

\* validate_header checking the nonce before the difficulty
validate_header_nonce_first(header, total_difficulty) ==
    IF active_at_ttd(total_difficulty)
    THEN IF header.nonce # 0 THEN "TheMergeNonceIsNotZero"
         ELSE IF header.difficulty # 0 THEN "TheMergeDifficultyIsNotZero"
         ELSE IF header.ommers_hash # EMPTY_OMMER_ROOT THEN "TheMergeOmmerRootIsNotEmpty"
         ELSE "Ok"
    ELSE "Ok"

\* BeaconConsensus::validate_header: Ok or the consensus error
validate_header(header, total_difficulty) ==
    IF active_at_ttd(total_difficulty)
    THEN IF header.difficulty # 0 THEN "TheMergeDifficultyIsNotZero"
         ELSE IF header.nonce # 0 THEN "TheMergeNonceIsNotZero"
         ELSE IF header.ommers_hash # EMPTY_OMMER_ROOT THEN "TheMergeOmmerRootIsNotEmpty"
         ELSE "Ok"
    ELSE "Ok"

\* BeaconConsensus::has_block_reward
has_block_reward(total_difficulty) == active_at_ttd(total_difficulty)

NotValidated ==
    [called |-> FALSE,
     header |-> [difficulty |-> 0, nonce |-> 0, ommers_hash |-> EMPTY_OMMER_ROOT],
     total_difficulty |-> 0, result |-> "Ok"]

NotRewarded == [called |-> FALSE, total_difficulty |-> 0, result |-> FALSE]

\* a call of validate_header
ValidateHeader ==
    /\ \E header \in SealedHeaders, total_difficulty \in 0..MaxTotalDifficulty :
          validated' = [called |-> TRUE, header |-> header,
                        total_difficulty |-> total_difficulty,
                        result |-> validate_header(header, total_difficulty)]
    /\ UNCHANGED <<chain_spec, rewarded>>
    /\ UNCHANGED <<stageVars, txVars, besideConsensus>>

\* a call of has_block_reward
HasBlockReward ==
    /\ \E total_difficulty \in 0..MaxTotalDifficulty :
          rewarded' = [called |-> TRUE, total_difficulty |-> total_difficulty,
                       result |-> has_block_reward(total_difficulty)]
    /\ UNCHANGED <<chain_spec, validated>>
    /\ UNCHANGED <<stageVars, txVars, besideConsensus>>

\* BeaconConsensus::new with the chain specification whose Paris fork is at ttd
ConsensusNew(ttd) ==
    /\ chain_spec = [ttd |-> ttd]
    /\ validated = NotValidated
    /\ rewarded = NotRewarded

(***************************************************************************)
(* The database the stages start from                                      *)
(***************************************************************************)
\* start_tx_id of block n for the per-block transaction counts: the dense tx_id counter
RECURSIVE StartTxId(_, _)
StartTxId(counts, n) == IF n = 0 THEN 0 ELSE StartTxId(counts, n - 1) + counts[n - 1]

\* the bodies of blocks 0..tip as the Bodies stage stores them
BodiesOf(counts, tip) ==
    [n \in 0..tip |-> [start_tx_id |-> StartTxId(counts, n), tx_count |-> counts[n]]]

\* the transactions of blocks 0..tip; the signatures of the transactions of bad are invalid
TransactionsOf(counts, tip, bad) ==
    [id \in 0..(StartTxId(counts, tip + 1) - 1) |-> [payload |-> id, valid |-> id \notin bad]]

\* the genesis block carries no transactions
BlockCounts == {c \in [0..MaxBlock -> 0..MaxTxPerBlock] : c[0] = 0}

\* a database no stage is working on
StagesIdle ==
    /\ stage = SENDER_RECOVERY
    /\ commit_threshold = 1
    /\ batch_size = 1
    /\ Headers = [n \in 0..0 |-> [number |-> n, difficulty |-> 1]]
    /\ BlockBodies = EmptyTable
    /\ Transactions = EmptyTable
    /\ HeaderTD = EmptyTable
    /\ TxSenders = EmptyTable
    /\ checkpoint = 0
    /\ last = NoCall
    /\ unwound = NoUnwind
    /\ committed = [checkpoint |-> 0, HeaderTD |-> EmptyTable, TxSenders |-> EmptyTable]

StagesInitWith(thresholds) ==
    /\ TxNew
    /\ ConsensusNew(MaxTTD)
    /\ RestIdle
    /\ stage \in {SENDER_RECOVERY, TOTAL_DIFFICULTY}
    /\ commit_threshold \in thresholds
    /\ checkpoint = 0
    /\ last = NoCall
    /\ unwound = NoUnwind
    /\ TxSenders = EmptyTable
    /\ \/ /\ stage = SENDER_RECOVERY
          /\ batch_size \in 1..MaxBatch
          /\ Headers = [n \in 0..MaxBlock |-> [number |-> n, difficulty |-> 1]]
          /\ HeaderTD = EmptyTable
          /\ \E counts \in BlockCounts, tip \in (-1)..MaxBlock :
                /\ BlockBodies = BodiesOf(counts, tip)
                /\ \E bad \in SUBSET (0..(StartTxId(counts, tip + 1) - 1)) :
                      Transactions = TransactionsOf(counts, tip, bad)
       \/ /\ stage = TOTAL_DIFFICULTY
          /\ batch_size = 1
          /\ BlockBodies = EmptyTable
          /\ Transactions = EmptyTable
          /\ \E difficulty \in [0..MaxBlock -> 0..MaxDifficulty] :
                Headers = [n \in 0..MaxBlock |-> [number |-> n, difficulty |-> difficulty[n]]]
          /\ HeaderTD \in {EmptyTable, [n \in {0} |-> Headers[0].difficulty]}
    /\ committed = [checkpoint |-> checkpoint, HeaderTD |-> HeaderTD, TxSenders |-> TxSenders]

StagesInit == StagesInitWith(1..MaxThreshold)

StagesNext ==
    \/ SenderRecoveryExecute
    \/ SenderRecoveryUnwind
    \/ TotalDifficultyExecute
    \/ TotalDifficultyUnwind
    \/ PipelineRestart

SpecStages == StagesInit /\ [][StagesNext]_vars

\* the total difficulty stage over a database whose canonical chain is 0..MaxBlock and
\* whose Headers table may lack headers above genesis
TdInit ==
    /\ TxNew
    /\ ConsensusNew(MaxTTD)
    /\ RestIdle
    /\ stage = TOTAL_DIFFICULTY
    /\ commit_threshold \in 1..MaxThreshold
    /\ batch_size = 1
    /\ checkpoint = 0
    /\ last = NoCall
    /\ unwound = NoUnwind
    /\ TxSenders = EmptyTable
    /\ BlockBodies = EmptyTable
    /\ Transactions = EmptyTable
    /\ \E present \in SUBSET (1..MaxBlock), difficulty \in [0..MaxBlock -> 1..MaxDifficulty] :
          Headers = [n \in {0} \cup present |-> [number |-> n, difficulty |-> difficulty[n]]]
    /\ HeaderTD = [n \in {0} |-> Headers[0].difficulty]
    /\ committed = [checkpoint |-> checkpoint, HeaderTD |-> HeaderTD, TxSenders |-> TxSenders]

TdNext ==
    \/ TotalDifficultyExecute
    \/ TotalDifficultyExecuteReadFailure
    \/ PipelineRestart

SpecTd == TdInit /\ [][TdNext]_vars

\* a stage configured with any commit_threshold the configuration file can hold
LoopInit == StagesInitWith(0..MaxThreshold)

LoopNext ==
    \/ PipelineFirstExecute
    \/ PipelineReinvoke

\* the pipeline goes on calling the stage as long as a call is due
SpecLoop == LoopInit /\ [][LoopNext]_vars /\ WF_vars(LoopNext)

\* the transactions manager runs next to a database no stage is working on
TxInit ==
    /\ TxNew
    /\ StagesIdle
    /\ ConsensusNew(MaxTTD)
    /\ RestIdle

TxNext ==
    \/ SessionEstablished
    \/ SessionClosed
    \/ PropagateHash
    \/ IncomingTransactions
    \/ IncomingPooledTransactionHashes
    \/ GetPooledTransactions
    \/ RequestResolved
    \/ ImportFinished
    \/ PendingTransactions
    \/ LocalTransaction
    \/ UpdateSyncState

SpecTx == TxInit /\ [][TxNext]_vars

\* the known-transaction caches of a peer that was sent or has announced some of TxHashes
KnownCaches ==
    {cache \in SeqsUpTo(TxHashes, MaxHash) : Cardinality(Range(cache)) = Len(cache)}

\* the manager of a synced node with n connected peers, each knowing some of the
\* transactions, and some transactions in the pool
PropagateInit ==
    /\ StagesIdle
    /\ ConsensusNew(MaxTTD)
    /\ RestIdle
    /\ syncState = "Synced"
    /\ pool \in SUBSET TxHashes
    /\ \E n \in 1..MaxPropagationPeers :
          peers \in [1..n -> [transactions : KnownCaches]]
    /\ transactions_by_peers = EmptyTable
    /\ pool_imports = <<>>
    /\ inflight_requests = <<>>
    /\ handled = Handled("new", 0)
    /\ sent = <<>>
    /\ reports = <<>>
    /\ propagated = {}

PropagateNext ==
    \/ PropagateHash
    \/ PendingTransactions

SpecPropagate == PropagateInit /\ [][PropagateNext]_vars

\* the hashes of n transactions a long-connected peer has seen, none of them in TxHashes
SeenBefore(n) == [i \in 1..n |-> MaxHash + i]

\* the manager of a synced node whose peer 1 has been connected for long: its cache
\* holds as many hashes as the limit allows, or up to MaxMsgLen fewer
LruInit ==
    /\ StagesIdle
    /\ ConsensusNew(MaxTTD)
    /\ RestIdle
    /\ syncState = "Synced"
    /\ pool \in SUBSET TxHashes
    /\ \E room \in 0..MaxMsgLen :
          peers = Put(EmptyTable, 1,
                      [transactions |-> SeenBefore(PEER_TRANSACTION_CACHE_LIMIT - room)])
    /\ transactions_by_peers = EmptyTable
    /\ pool_imports = <<>>
    /\ inflight_requests = <<>>
    /\ handled = Handled("new", 0)
    /\ sent = <<>>
    /\ reports = <<>>
    /\ propagated = {}

\* the events that record a hash in a peer's cache
LruNext ==
    \/ PropagateHash
    \/ PendingTransactions
    \/ IncomingTransactions
    \/ IncomingPooledTransactionHashes
    \/ GetPooledTransactions

SpecLru == LruInit /\ [][LruNext]_vars

\* no header was given to recover_header_signer yet
CliqueInit ==
    /\ StagesIdle
    /\ TxNew
    /\ ConsensusNew(MaxTTD)
    /\ PollIdle
    /\ CliIdle
    /\ DlIdle
    /\ InsertIdle
    /\ CliqueIdle
    /\ MeterIdle
    /\ NodeIdle
    /\ IndexIdle

CliqueNext == RecoverHeaderSigner

SpecClique == CliqueInit /\ [][CliqueNext]_vars

\* the duplex streams of create_metered_duplex, two meters shared by all of them
MeterInit ==
    /\ StagesIdle
    /\ TxNew
    /\ ConsensusNew(MaxTTD)
    /\ PollIdle
    /\ CliIdle
    /\ DlIdle
    /\ InsertIdle
    /\ CliqueIdle
    /\ MeterIdle
    /\ NodeIdle
    /\ IndexIdle

MeterNext ==
    \/ PollRead
    \/ PollWrite
    \/ PollShutdown
    \/ ConnectionReset

SpecMeter == MeterInit /\ [][MeterNext]_vars

\* the network runs before the listener of handle_events is registered; the build
\* checks arithmetic for overflow or does not
NodeInit ==
    /\ StagesIdle
    /\ TxNew
    /\ ConsensusNew(MaxTTD)
    /\ PollIdle
    /\ CliIdle
    /\ DlIdle
    /\ InsertIdle
    /\ CliqueIdle
    /\ MeterIdle
    /\ IndexIdle
    /\ sessions = {}
    /\ listening = FALSE
    /\ node_events = <<>>
    /\ connected_peers = usize(0)
    /\ handle_events = "running"
    /\ overflow_checks \in BOOLEAN
    /\ event_counts = [established |-> 0, closed |-> 0]

NodeNext ==
    \/ NetworkSessionEstablished
    \/ NetworkSessionClosed
    \/ EventListener
    \/ HandleNetworkEvent

SpecNode == NodeInit /\ [][NodeNext]_vars

IndexInit ==
    /\ StagesIdle
    /\ TxNew
    /\ ConsensusNew(MaxTTD)
    /\ PollIdle
    /\ CliIdle
    /\ DlIdle
    /\ InsertIdle
    /\ CliqueIdle
    /\ MeterIdle
    /\ NodeIdle
    /\ IndexIdle

IndexNext ==
    \/ Serialize
    \/ Request
    \/ Deserialize

SpecIndex == IndexInit /\ [][IndexNext]_vars

\* an empty database
InsertInit ==
    /\ TxNew
    /\ ConsensusNew(MaxTTD)
    /\ PollIdle
    /\ CliIdle
    /\ DlIdle
    /\ InsertIdle
    /\ CliqueIdle
    /\ MeterIdle
    /\ NodeIdle
    /\ IndexIdle
    /\ stage = SENDER_RECOVERY
    /\ commit_threshold = 1
    /\ batch_size = 1
    /\ Headers = EmptyTable
    /\ BlockBodies = EmptyTable
    /\ Transactions = EmptyTable
    /\ HeaderTD = EmptyTable
    /\ TxSenders = EmptyTable
    /\ checkpoint = 0
    /\ last = NoCall
    /\ unwound = NoUnwind
    /\ committed = [checkpoint |-> 0, HeaderTD |-> EmptyTable, TxSenders |-> EmptyTable]

InsertNext == InsertBlock

SpecInsert == InsertInit /\ [][InsertNext]_vars

\* a downloader whose client holds some headers, in the order they were pushed
DlInit ==
    /\ StagesIdle
    /\ TxNew
    /\ ConsensusNew(MaxTTD)
    /\ PollIdle
    /\ CliIdle
    /\ InsertIdle
    /\ CliqueIdle
    /\ MeterIdle
    /\ NodeIdle
    /\ IndexIdle
    /\ \E responses \in SeqsUpTo(0..MaxHeaderNumber, MaxHeaderNumber + 1),
          limit \in 1..(MaxHeaderNumber + 1), size \in 1..MaxStreamBatch :
          /\ Cardinality(Range(responses)) = Len(responses)
          /\ downloader = TestHeaderDownloader(responses, limit, size)
    /\ yielded = <<>>

DlNext == DownloaderPollNext

SpecDl == DlInit /\ [][DlNext]_vars

\* a command starts: import with its block file, node with or without a block file
\* and with or without --debug.tip
CliInit ==
    /\ StagesIdle
    /\ TxNew
    /\ ConsensusNew(MaxTTD)
    /\ PollIdle
    /\ DlIdle
    /\ InsertIdle
    /\ CliqueIdle
    /\ MeterIdle
    /\ NodeIdle
    /\ IndexIdle
    /\ command \in {"import", "node --import", "node"}
    /\ blocks \in IF command = "node" THEN {NoHash} ELSE TipHashes
    /\ debug_tip \in IF command = "import" THEN {NoHash} ELSE TipHashes \cup {NoHash}
    /\ file_client = NoHash
    /\ forkchoice_state = NoForkchoice
    /\ cli = "start"
    /\ observed = NoForkchoice

CliNext ==
    \/ FileClientNew
    \/ OverrideTip
    \/ InitConsensus
    \/ BuildPipeline
    \/ PipelineRun
    \/ ForkChoiceState

SpecCli == CliInit /\ [][CliNext]_vars

\* the manager of a synced node with some transactions in its pool
PollInit ==
    /\ StagesIdle
    /\ ConsensusNew(MaxTTD)
    /\ PollIdle
    /\ CliIdle
    /\ DlIdle
    /\ InsertIdle
    /\ CliqueIdle
    /\ MeterIdle
    /\ NodeIdle
    /\ IndexIdle
    /\ syncState = "Synced"
    /\ pool \in SUBSET TxHashes
    /\ peers = EmptyTable
    /\ transactions_by_peers = EmptyTable
    /\ pool_imports = <<>>
    /\ inflight_requests = <<>>
    /\ handled = Handled("new", 0)
    /\ sent = <<>>
    /\ reports = <<>>
    /\ propagated = {}

PollNext ==
    \/ ItemReady
    \/ PollStart
    \/ PollNetworkEvents
    \/ PollCommands
    \/ PollTransactionEvents
    \/ PollRequests
    \/ PollImports
    \/ PollPendingTransactions

SpecPoll == PollInit /\ [][PollNext]_vars

\* the in-flight requests of the manager when poll reaches them: each sent to some peer,
\* numbered in the order they were pushed
InflightLists ==
    UNION {{[i \in 1..n |-> [peer_id |-> to[i], id |-> i]] : to \in [1..n -> PeerIds]} :
              n \in 0..MaxRequests}

\* poll has drained the events and reaches the loop over the in-flight requests; some
\* of the peers that were sent a request may have closed their session since
RequestsInit ==
    /\ StagesIdle
    /\ ConsensusNew(MaxTTD)
    /\ CliIdle
    /\ DlIdle
    /\ InsertIdle
    /\ CliqueIdle
    /\ MeterIdle
    /\ NodeIdle
    /\ IndexIdle
    /\ network_events = <<>>
    /\ command_rx = <<>>
    /\ transaction_events = <<>>
    /\ pending_transactions = <<>>
    /\ polling \in {i \in DOMAIN PollOrder : PollOrder[i] = "inflight_requests"}
    /\ inflight_requests \in InflightLists
    /\ req_idx = Len(inflight_requests)
    /\ polled = <<>>
    /\ request_polls = <<>>
    /\ ready = [source \in Streams |-> 0]
    /\ arrivals = 0
    /\ syncState \in {"Synced", "Syncing"}
    /\ pool = {}
    /\ \E registered \in SUBSET PeerIds : peers = [peer_id \in registered |-> NewPeer]
    /\ transactions_by_peers = EmptyTable
    /\ pool_imports = <<>>
    /\ handled = Handled("new", 0)
    /\ sent = <<>>
    /\ reports = <<>>
    /\ propagated = {}

RequestsNext == PollRequests

SpecRequests == RequestsInit /\ [][RequestsNext]_vars

\* the consensus engine of any chain specification, next to an idle pipeline and manager
ConsensusInit ==
    /\ TxNew
    /\ StagesIdle
    /\ RestIdle
    /\ \E ttd \in 0..MaxTTD : ConsensusNew(ttd)

ConsensusNext ==
    \/ ValidateHeader
    \/ HasBlockReward

SpecConsensus == ConsensusInit /\ [][ConsensusNext]_vars

(***************************************************************************)
(* Properties of the stages, checked under SpecStages                      *)
(***************************************************************************)
\* the call recorded in l is an execute that returned Ok
ExecutedOk(l) == l.op = "execute" /\ l.result = "Ok"

\* the call recorded in l is an execute whose range straddles the commit threshold, over
\* blocks the database holds
Straddle(l) ==
    /\ ExecutedOk(l)
    /\ stage = SENDER_RECOVERY => l.previous_stage_progress \in DOMAIN BlockBodies
    /\ commit_threshold < l.previous_stage_progress - l.stage_progress
    /\ l.previous_stage_progress - l.stage_progress <= 2 * commit_threshold

\* the first transaction id after the transactions of block n
NextTxId(n) == BlockBodies[n].start_tx_id + BlockBodies[n].tx_count

\* the stage's table holds an entry for everything of the blocks (p, q]
Covers(p, q) ==
    IF stage = TOTAL_DIFFICULTY
    THEN \A n \in (p + 1)..q : n \in DOMAIN HeaderTD
    ELSE \A n \in (p + 1)..q : \A id \in tx_id_range(BlockBodies[n]) : id \in DOMAIN TxSenders

\* C4: commit-threshold straddle, for both stages: with c < q - p <= 2c the first
\* execute returns done=false and progress p+c, the execute that follows it with
\* progress p+c returns done=true and progress q, and the table then covers (p, q].
C4_StraddleTwoCalls ==
    [][/\ Straddle(last') =>
            /\ ~last'.done
            /\ last'.out_progress = last'.stage_progress + commit_threshold
       /\ (/\ Straddle(last)
           /\ ExecutedOk(last')
           /\ last'.previous_stage_progress = last.previous_stage_progress) =>
            /\ last'.stage_progress = last.stage_progress + commit_threshold
            /\ last'.done
            /\ last'.out_progress = last.previous_stage_progress
            /\ Covers(last.stage_progress, last.previous_stage_progress)']_vars

\* C5: execute with previous_stage_progress <= stage_progress returns done=true with
\* the input stage_progress and writes to no table.
C5_NothingToDo ==
    [][(last'.op = "execute" /\ last'.previous_stage_progress <= last'.stage_progress) =>
            /\ last'.result = "Ok"
            /\ last'.done
            /\ last'.out_progress = last'.stage_progress
            /\ checkpoint' = checkpoint
            /\ UNCHANGED <<Headers, BlockBodies, Transactions, HeaderTD, TxSenders>>]_vars

\* C5 witness: TotalDifficulty returned done for an input that is not behind the previous
\* stage, with progress above genesis
C5_Witness ==
    /\ stage = TOTAL_DIFFICULTY
    /\ last.op = "execute"
    /\ last.previous_stage_progress < last.stage_progress
    /\ last.done
    /\ last.out_progress > 0

\* the capped range of the call recorded in l has no transaction to walk:
\* start_tx_index > end_tx_index
NothingToWalk(l) ==
    LET end_block == Min(l.previous_stage_progress, l.stage_progress + commit_threshold)
    IN  BlockBodies[l.stage_progress + 1].start_tx_id > last_tx_index(BlockBodies[end_block])

\* C6 as stated: execute with previous_stage_progress > stage_progress returns progress
\* min(q, p + c) and done equal to whether the cap was binding (p + c < q).
C6_DoneIsCapped ==
    (ExecutedOk(last) /\ last.previous_stage_progress > last.stage_progress) =>
        /\ last.out_progress =
               Min(last.previous_stage_progress, last.stage_progress + commit_threshold)
        /\ last.done <=> (last.stage_progress + commit_threshold < last.previous_stage_progress)

\* C6 amended: execute with previous_stage_progress > stage_progress returns progress
\* min(q, p + c); done is true when the cap was not binding and false when it was,
\* except that SenderRecovery returns done=true also under a binding cap when the
\* capped range has no transaction to walk.
C6_DoneIsNotCapped ==
    (ExecutedOk(last) /\ last.previous_stage_progress > last.stage_progress) =>
        /\ last.out_progress =
               Min(last.previous_stage_progress, last.stage_progress + commit_threshold)
        /\ last.done <=>
               \/ ~(last.stage_progress + commit_threshold < last.previous_stage_progress)
               \/ stage = SENDER_RECOVERY /\ NothingToWalk(last)

\* C6 witness: a capped SenderRecovery execute that walked transactions and returned
\* done=false
C6_Witness ==
    /\ stage = SENDER_RECOVERY
    /\ ExecutedOk(last)
    /\ last.stage_progress + commit_threshold < last.previous_stage_progress
    /\ ~NothingToWalk(last)
    /\ ~last.done
    /\ TxSenders # EmptyTable

\* C7: after TotalDifficulty execute returns Ok with progress P from progress p, every
\* block n of (p, P] has HeaderTD[n] = HeaderTD[n-1] + difficulty of header n, the entries
\* written are exactly one per block number of (p, P], and the entries that existed
\* (the seed at p among them) are unchanged.
C7_CumulativeDifficulty ==
    [][(stage = TOTAL_DIFFICULTY /\ ExecutedOk(last')) =>
            /\ \A n \in (last'.stage_progress + 1)..last'.out_progress :
                    /\ n \in DOMAIN HeaderTD'
                    /\ HeaderTD'[n] = HeaderTD'[n - 1] + Headers[n].difficulty
            /\ (DOMAIN HeaderTD') \ (DOMAIN HeaderTD) =
                    (last'.stage_progress + 1)..last'.out_progress
            /\ \A k \in DOMAIN HeaderTD : HeaderTD'[k] = HeaderTD[k]]_vars

\* C7 witness: an execute over at least two blocks wrote a total difficulty that
\* differs from the difficulty of the last header
C7_Witness ==
    /\ stage = TOTAL_DIFFICULTY
    /\ ExecutedOk(last)
    /\ last.out_progress >= last.stage_progress + 2
    /\ HeaderTD[last.out_progress] # Headers[last.out_progress].difficulty
    /\ HeaderTD[last.out_progress] > HeaderTD[last.stage_progress]

C9_MonotonicProgress ==
    [][/\ ExecutedOk(last') =>
            /\ last'.out_progress >= last'.stage_progress
            /\ checkpoint' >= checkpoint
       /\ checkpoint' < checkpoint => last'.op = "unwind"
       /\ (last'.op = "unwind" /\ last'.result = "Ok") =>
            /\ last'.out_progress = last'.unwind_to
            /\ checkpoint' = last'.unwind_to]_vars

\* C9 witness: an unwind lowered the progress of a stage that had executed
C9_Witness ==
    /\ last.op = "unwind"
    /\ last.result = "Ok"
    /\ last.unwind_to < last.stage_progress
    /\ checkpoint = last.unwind_to

\* C10: after SenderRecovery unwind(T) no TxSenders entry is left for a transaction of
\* a block above T, the entries of the blocks up to T are untouched, and the returned
\* progress is T.
C10_UnwindRemovesSenders ==
    [][(stage = SENDER_RECOVERY /\ last'.op = "unwind" /\ last'.result = "Ok") =>
            /\ \A id \in DOMAIN TxSenders' : id < NextTxId(last'.unwind_to)
            /\ \A id \in DOMAIN TxSenders :
                   id < NextTxId(last'.unwind_to) =>
                       id \in DOMAIN TxSenders' /\ TxSenders'[id] = TxSenders[id]
            /\ last'.out_progress = last'.unwind_to]_vars

\* C11: after TotalDifficulty unwind(T), HeaderTD holds no entry of a block above T,
\* every entry of a block up to T is unchanged, and the returned progress is T.
C11_UnwindRemovesTD ==
    [][(stage = TOTAL_DIFFICULTY /\ last'.op = "unwind") =>
            /\ last'.result = "Ok"
            /\ \A n \in DOMAIN HeaderTD' : n <= last'.unwind_to
            /\ \A n \in DOMAIN HeaderTD :
                   n <= last'.unwind_to => n \in DOMAIN HeaderTD' /\ HeaderTD'[n] = HeaderTD[n]
            /\ last'.out_progress = last'.unwind_to]_vars

\* C11 witness: an unwind to a block above genesis removed entries and kept the
\* entry of the block it unwound to
C11_Witness ==
    /\ stage = TOTAL_DIFFICULTY
    /\ last.op = "unwind"
    /\ last.unwind_to > 0
    /\ last.unwind_to < last.stage_progress
    /\ last.stage_progress \in DOMAIN unwound.HeaderTD
    /\ DOMAIN HeaderTD = 0..last.unwind_to

\* C12: from a state executed up to tip P, unwind(T) with T < P followed by
\* re-execution up to P succeeds, and once the progress is P again TxSenders and
\* HeaderTD are identical to the tables before the unwind.
C12_UnwindReexecute ==
    (/\ unwound.to < unwound.tip
     /\ last.op = "execute"
     /\ last.previous_stage_progress <= unwound.tip) =>
        /\ last.result = "Ok"
        /\ checkpoint = unwound.tip =>
              /\ TxSenders = unwound.TxSenders
              /\ HeaderTD = unwound.HeaderTD

\* C15: TotalDifficulty execute with previous_stage_progress > stage_progress fails
\* with DatabaseIntegrityError::TotalDifficulty{number = stage_progress} when HeaderTD
\* has no entry for the header at stage_progress, and has then written no HeaderTD entry.
C15_SeedMissing ==
    [][(/\ stage = TOTAL_DIFFICULTY
        /\ last'.op = "execute"
        /\ last'.previous_stage_progress > last'.stage_progress
        /\ last'.stage_progress \notin DOMAIN HeaderTD) =>
            /\ last'.result = "Err"
            /\ last'.err = "TotalDifficulty"
            /\ last'.number = last'.stage_progress
            /\ HeaderTD' = HeaderTD
            /\ checkpoint' = checkpoint]_vars

\* C15 witness: an execute towards a block above the progress failed on the missing
\* seed entry
C15_Witness ==
    /\ stage = TOTAL_DIFFICULTY
    /\ last.op = "execute"
    /\ last.previous_stage_progress > last.stage_progress
    /\ last.stage_progress \notin DOMAIN HeaderTD
    /\ last.err = "TotalDifficulty"
    /\ \E n \in DOMAIN Headers : n > last.stage_progress /\ Headers[n].difficulty > 0

\* the execute of SenderRecovery from progress p towards q walks a transaction whose
\* signer cannot be recovered, over a TxSenders table that accepts every append of the
\* range
RecoveryFails(p, q) ==
    LET act == exec_or_return(p, q, commit_threshold)
    IN  /\ act.action = "Run"
        /\ has_block_body(act.start_block)
        /\ has_block_body(act.end_block)
        /\ \E id \in DOMAIN Transactions :
              /\ BlockBodies[act.start_block].start_tx_id <= id
              /\ id <= last_tx_index(BlockBodies[act.end_block])
              /\ recover_signer(Transactions[id]) = NoSigner
        /\ \A id \in DOMAIN TxSenders : id < BlockBodies[act.start_block].start_tx_id

\* C16: if signer recovery fails for a transaction of the processed range, SenderRecovery
\* execute returns the fatal error SenderRecovery{tx} for a transaction that failed
\* instead of an output; the stage progress is not changed, and the committed progress
\* and the committed TxSenders stay what they were before the call, also when chunks
\* of the call had been appended before the failing chunk.
C16_RecoveryFailureIsFatal ==
    [][(stage = SENDER_RECOVERY /\ last'.op = "execute") =>
            /\ RecoveryFails(checkpoint, last'.previous_stage_progress) =>
                    last'.err = "SenderRecovery"
            /\ last'.err = "SenderRecovery" =>
                    /\ last'.result = "Err"
                    /\ recover_signer(Transactions[last'.number]) = NoSigner
                    /\ checkpoint' = checkpoint
                    /\ committed' = committed
                    /\ committed'.checkpoint = checkpoint
                    /\ committed'.TxSenders = TxSenders]_vars

\* C16 witness: a recovery failed after a chunk of the same call had been appended, on
\* top of senders committed by an earlier call
C16_Witness ==
    /\ stage = SENDER_RECOVERY
    /\ last.op = "execute"
    /\ last.err = "SenderRecovery"
    /\ committed.TxSenders # EmptyTable
    /\ TxSenders # committed.TxSenders
    /\ checkpoint = committed.checkpoint

\* the senders table after the transactions ids were recovered and appended to senders
Appended(senders, ids) ==
    [id \in (DOMAIN senders) \cup ids |->
        IF id \in ids THEN recover_signer(Transactions[id]) ELSE senders[id]]

\* the transactions the execute recorded in l walked
Walked(l) ==
    {id \in DOMAIN Transactions :
        /\ BlockBodies[l.stage_progress + 1].start_tx_id <= id
        /\ id <= last_tx_index(BlockBodies[l.out_progress])}

\* C17: SenderRecovery appends TxSenders entries in strictly increasing tx_id order,
\* within a chunk, across chunks and across consecutive execute calls, so that in a
\* forward run no append is refused and every key a call adds is above every key the
\* table held; the table after a call is determined by the table before it and the
\* range, whatever the order in which the parallel recoveries finish.
C17_AppendsInOrder ==
    [][(stage = SENDER_RECOVERY /\ last'.op = "execute" /\ unwound = NoUnwind) =>
            /\ last'.err # "Database"
            /\ \A id \in (DOMAIN TxSenders') \ (DOMAIN TxSenders) :
                   \A old \in DOMAIN TxSenders : old < id
            /\ (ExecutedOk(last') /\ last'.out_progress > last'.stage_progress) =>
                   TxSenders' = Appended(TxSenders, Walked(last'))]_vars

(***************************************************************************)
(* Properties of the consensus engine, checked under SpecConsensus         *)
(***************************************************************************)
\* C13: validate_header(header, total_difficulty) with total_difficulty >= TTD fails with
\* TheMergeDifficultyIsNotZero if the difficulty is not 0, otherwise with
\* TheMergeNonceIsNotZero if the nonce is not 0, otherwise with
\* TheMergeOmmerRootIsNotEmpty if ommers_hash is not the empty-ommers root, and succeeds
\* otherwise; with total_difficulty < TTD it succeeds for every header.
C13_MergeRules ==
    validated.called =>
        LET header == validated.header
        IN  /\ validated.total_difficulty < chain_spec.ttd => validated.result = "Ok"
            /\ validated.total_difficulty >= chain_spec.ttd =>
                  /\ header.difficulty # 0 =>
                        validated.result = "TheMergeDifficultyIsNotZero"
                  /\ (header.difficulty = 0 /\ header.nonce # 0) =>
                        validated.result = "TheMergeNonceIsNotZero"
                  /\ (/\ header.difficulty = 0
                      /\ header.nonce = 0
                      /\ header.ommers_hash # EMPTY_OMMER_ROOT) =>
                        validated.result = "TheMergeOmmerRootIsNotEmpty"
                  /\ (/\ header.difficulty = 0
                      /\ header.nonce = 0
                      /\ header.ommers_hash = EMPTY_OMMER_ROOT) =>
                        validated.result = "Ok"

\* C13 witness: a header of difficulty 7 with a nonce and ommers was refused for its
\* difficulty at a total difficulty above a positive TTD
C13_Witness ==
    /\ validated.called
    /\ chain_spec.ttd > 0
    /\ validated.total_difficulty > chain_spec.ttd
    /\ validated.header.difficulty = 7
    /\ validated.header.nonce # 0
    /\ validated.header.ommers_hash # EMPTY_OMMER_ROOT
    /\ validated.result = "TheMergeDifficultyIsNotZero"

\* C14: has_block_reward(total_difficulty) is false once the TTD is crossed
\* (total_difficulty >= TTD) and true for every total_difficulty below the TTD.
C14_NoRewardAfterMerge ==
    rewarded.called => (rewarded.result <=> rewarded.total_difficulty < chain_spec.ttd)

(***************************************************************************)
(* Properties of the transactions manager, checked under SpecTx            *)
(***************************************************************************)
\* C1: while the sync state is Downloading, handling an incoming transaction broadcast
\* or an incoming pooled-transaction-hash announcement starts no pool import, issues no
\* GetPooledTransactions request, updates no peer's known set and reports no
\* reputation change.
C1_IgnoredWhileDownloading ==
    [][(/\ handled'.event \in {"IncomingTransactions", "IncomingPooledTransactionHashes"}
        /\ syncState = "Downloading") =>
            /\ UNCHANGED <<pool, pool_imports, transactions_by_peers, peers,
                           inflight_requests>>
            /\ sent' = <<>>
            /\ reports' = <<>>]_vars

\* C1 witness: a broadcast of a connected peer was handled while Downloading, with the
\* pool empty
C1_Witness ==
    /\ handled.event = "IncomingTransactions"
    /\ handled.peer_id \in DOMAIN peers
    /\ syncState = "Downloading"
    /\ pool = {}
    /\ pool_imports = <<>>

\* C2: while the sync state is not Synced, neither the pending transactions of the pool
\* nor a PropagateHash command make the manager send a message or change a peer's
\* known set.
C2_NoPropagationUnlessSynced ==
    [][(/\ handled'.event \in {"PendingTransactions", "PropagateHash"}
        /\ syncState # "Synced") =>
            /\ sent' = <<>>
            /\ propagated' = {}
            /\ peers' = peers]_vars

\* C2 witness: a PropagateHash command was handled while not Synced, with a pooled
\* transaction and a connected peer that does not know it
C2_Witness ==
    /\ handled.event = "PropagateHash"
    /\ syncState # "Synced"
    /\ \E peer_id \in DOMAIN peers : \E hash \in pool :
          hash \notin Range(peers[peer_id].transactions)

\* C3: on session establishment the manager sends the new peer a
\* NewPooledTransactionHashes listing all pooled transactions only if the sync state is
\* Synced; in every other sync state it sends nothing for the session.
C3_SessionHashesOnlyIfSynced ==
    handled.event = "SessionEstablished" =>
        /\ syncState # "Synced" => sent = <<>>
        /\ sent # <<>> =>
              sent = <<Message("NewPooledTransactionHashes", handled.peer_id,
                               Ascending(pool))>>

\* C3 witness: a session was established while not Synced, with a transaction in the pool
C3_Witness ==
    /\ handled.event = "SessionEstablished"
    /\ syncState # "Synced"
    /\ pool # {}
    /\ handled.peer_id \in DOMAIN peers

(***************************************************************************)
(* Properties of a propagation round, checked under SpecPropagate          *)
(***************************************************************************)
\* the peers the messages msgs of kind msg were sent to
Receivers(msgs, msg) == {msgs[i].peer_id : i \in {j \in DOMAIN msgs : msgs[j].msg = msg}}

\* the step is a propagation round of a synced node
PropagationRound ==
    /\ handled'.event \in {"PendingTransactions", "PropagateHash"}
    /\ syncState = "Synced"

\* C18: in a propagation round with n connected peers, full transactions are sent to at
\* most floor(sqrt(n)) + 1 peers; every other peer that does not know one of the
\* transactions yet receives a hash announcement and nothing else.
C18_FullToSqrtPeers ==
    [][PropagationRound =>
          LET full == Receivers(sent', "Transactions")
              hashed == Receivers(sent', "NewPooledTransactionHashes")
          IN  /\ Cardinality(full) <= Sqrt(Cardinality(DOMAIN peers)) + 1
              /\ full \cap hashed = {}
              /\ \E txs \in SUBSET pool :
                    \A peer_id \in (DOMAIN peers) \ full :
                        peer_id \in hashed <=>
                            \E hash \in txs : hash \notin Range(peers[peer_id].transactions)]_vars

\* C19: a propagation round sends a peer no transaction, in full or as hash, whose hash
\* is in the peer's known set; every hash sent to a peer is in the peer's set after the
\* round; and the returned PropagatedTransactions are exactly the sends that were made.
C19_NoResend ==
    [][PropagationRound =>
          /\ \A i \in DOMAIN sent' :
                /\ Range(sent'[i].hashes) \cap Range(peers[sent'[i].peer_id].transactions) = {}
                /\ Range(sent'[i].hashes) \subseteq Range(peers'[sent'[i].peer_id].transactions)
                /\ Cardinality(Range(sent'[i].hashes)) = Len(sent'[i].hashes)
                /\ \A j \in DOMAIN sent' : sent'[j].peer_id = sent'[i].peer_id => j = i
          /\ propagated' =
                UNION {{[hash |-> hash, peer_id |-> sent'[i].peer_id,
                         kind |-> IF sent'[i].msg = "Transactions" THEN "Full" ELSE "Hash"] :
                            hash \in Range(sent'[i].hashes)} : i \in DOMAIN sent'}]_vars

\* C19 witness: a round sent full transactions to some peers and hashes to another, and
\* nothing to a peer that knew the transaction
C19_Witness ==
    /\ handled.event \in {"PendingTransactions", "PropagateHash"}
    /\ \E sends \in propagated : sends.kind = "Full"
    /\ \E sends \in propagated : sends.kind = "Hash"
    /\ \E peer_id \in DOMAIN peers :
          \A i \in DOMAIN sent : sent[i].peer_id # peer_id

Broadcasts(peer_id, msg) ==
    /\ ~is_syncing
    /\ peer_id \in DOMAIN peers
    /\ handled' = Handled("IncomingTransactions", peer_id)
    /\ import_transactions(peer_id, msg, TRUE)

\* registered peer peer_id announces the hashes msg to the synced node
Announces(peer_id, msg) ==
    /\ ~is_syncing
    /\ peer_id \in DOMAIN peers
    /\ \E sendable \in BOOLEAN : on_new_pooled_transaction_hashes(peer_id, msg, sendable)

\* C21: while synced, a registered peer that broadcasts a malformed transaction or a
\* transaction whose hash is in its known set, or that announces a hash that is in
\* its known set, is reported for a bad message, also when the pool knows every
\* announced hash.
C21_BadMessageReported ==
    [][/\ \A peer_id \in PeerIds, msg \in SeqsUpTo(WireTxs, MaxMsgLen) :
             (/\ Broadcasts(peer_id, msg)
              /\ \E i \in DOMAIN msg :
                    \/ ~msg[i].valid
                    \/ msg[i].hash \in Range(peers[peer_id].transactions))
                 => reports' = <<peer_id>>
       /\ \A peer_id \in PeerIds, msg \in SeqsUpTo(TxHashes, MaxMsgLen) :
             (/\ Announces(peer_id, msg)
              /\ \E i \in DOMAIN msg : msg[i] \in Range(peers[peer_id].transactions))
                 => reports' = <<peer_id>>]_vars

(***************************************************************************)
(* Order of handling within one poll, checked under SpecPoll               *)
(***************************************************************************)
\* the rank of a source in the order network events, commands, transaction events,
\* in-flight request responses, pool-import completions, pending-transaction drain
Rank(source) ==
    CASE source = "network_events" -> 1
      [] source = "command_rx" -> 2
      [] source = "transaction_events" -> 3
      [] source = "inflight_requests" -> 4
      [] source = "pool_imports" -> 5
      [] source = "pending_transactions" -> 6

\* the number of items of source among the first n handled in this poll
HandledOf(source, n) == Cardinality({i \in 1..n : polled[i] = source})

\* C22: within one poll, items are handled in the order network events, commands,
\* transaction events, in-flight responses, pool-import completions, pending
\* transactions: when an item is handled, every item of an earlier source that was
\* ready when poll was called has been handled, and no item of a later source has.
C22_PollOrder ==
    \A i \in DOMAIN polled :
        /\ \A j \in 1..(i - 1) : Rank(polled[j]) <= Rank(polled[i])
        /\ \A source \in Streams :
              Rank(source) < Rank(polled[i]) => HandledOf(source, i - 1) >= ready[source]

\* C22 witness: a session and a broadcast of that peer were ready when poll was called;
\* both were handled and the broadcast transaction is being imported
C22_Witness ==
    /\ polled = <<"network_events", "transaction_events">>
    /\ ready["network_events"] = 1
    /\ ready["transaction_events"] = 1
    /\ handled.event = "IncomingTransactions"
    /\ handled.peer_id \in DOMAIN peers
    /\ pool_imports # <<>>

(***************************************************************************)
(* Pool imports of the manager, checked under SpecTx                       *)
(***************************************************************************)
\* C30: the hashes keyed in transactions_by_peers are exactly the hashes of the
\* unfinished pool imports, one import per hash; a step that is not the completion
\* of an import keeps every entry and only appends the sending peer to it, and the
\* completion of an import removes its entry.
C30_OneImportPerHash ==
    /\ [](/\ DOMAIN transactions_by_peers = Range(pool_imports)
          /\ Cardinality(Range(pool_imports)) = Len(pool_imports))
    /\ [][IF handled'.event = "ImportFinished"
          THEN \E hash \in DOMAIN transactions_by_peers :
                  /\ DOMAIN transactions_by_peers' = DOMAIN transactions_by_peers \ {hash}
                  /\ \A other \in DOMAIN transactions_by_peers' :
                        transactions_by_peers'[other] = transactions_by_peers[other]
          ELSE \A hash \in DOMAIN transactions_by_peers :
                  /\ hash \in DOMAIN transactions_by_peers'
                  /\ Len(transactions_by_peers'[hash]) >= Len(transactions_by_peers[hash])
                  /\ \A i \in DOMAIN transactions_by_peers'[hash] :
                        transactions_by_peers'[hash][i] =
                            IF i <= Len(transactions_by_peers[hash])
                            THEN transactions_by_peers[hash][i]
                            ELSE handled'.peer_id]_vars

\* C30 witness: a transaction was received again while its import was pending: its
\* entry lists the two senders and there is one import
C30_Witness ==
    \E hash \in DOMAIN transactions_by_peers :
        /\ Len(transactions_by_peers[hash]) = 2
        /\ pool_imports = <<hash>>
        /\ handled.event = "IncomingTransactions"

(***************************************************************************)
(* Forkchoice state of a file import, checked under SpecCli                *)
(***************************************************************************)
\* C23: in file-import mode the forkchoice state with head = safe = finalized = the
\* tip of the block file is in the channel once the pipeline is built and while it
\* runs, whatever tip the user gave, and a reader that reads the channel from then
\* on sees exactly that state.
C23_ImportTipPublished ==
    command \in {"import", "node --import"} =>
        /\ cli \in {"consensus", "pipeline", "running"} =>
              forkchoice_state = ForkchoiceState(blocks)
        /\ observed \in {NoForkchoice, ForkchoiceState(blocks)}

\* C23 witness: node --import runs the pipeline, the tip is that of the file, and a
\* reader has seen the forkchoice state of the file's tip
C23_Witness ==
    /\ command = "node --import"
    /\ cli = "running"
    /\ observed = ForkchoiceState(blocks)
    /\ debug_tip = blocks

(***************************************************************************)
(* Order of the downloaded headers, checked under SpecDl                   *)
(***************************************************************************)
\* the headers of the yielded batches, one batch after the other
RECURSIVE Flatten(_)
Flatten(batches) ==
    IF batches = <<>> THEN <<>> ELSE Head(batches) \o Flatten(Tail(batches))

\* C24: every batch the downloader stream yields lists its headers by ascending block
\* number, and so do consecutive batches, whatever the order the headers were fetched in.
C24_BatchesAscending ==
    \A i, j \in DOMAIN Flatten(yielded) :
        i < j => Flatten(yielded)[i] < Flatten(yielded)[j]

(***************************************************************************)
(* Counters of insert_block, checked under SpecInsert                      *)
(***************************************************************************)
\* the number of transactions of the blocks below n
RECURSIVE TxCountBelow(_)
TxCountBelow(n) ==
    IF n = 0 THEN 0 ELSE TxCountBelow(n - 1) + BlockBodies[n - 1].tx_count

\* C25: as long as no parent was given to insert_block, the bodies are those of blocks
\* 0..k-1, start_tx_id(0) = 0, start_tx_id(n) = start_tx_id(n-1) + tx_count(n-1), and
\* the keys of Transactions and of TxSenders are exactly 0 .. sum of tx_count - 1.
C25_TxIdsDense ==
    ~inserted.overridden =>
        LET k == Cardinality(DOMAIN BlockBodies)
        IN  /\ DOMAIN BlockBodies = 0..(k - 1)
            /\ \A n \in DOMAIN BlockBodies : BlockBodies[n].start_tx_id = TxCountBelow(n)
            /\ DOMAIN Transactions = 0..(TxCountBelow(k) - 1)
            /\ DOMAIN TxSenders = 0..(TxCountBelow(k) - 1)

\* C25 witness: three blocks were inserted without a parent, the middle one empty and
\* the others with transactions
C25_Witness ==
    /\ ~inserted.overridden
    /\ DOMAIN BlockBodies = 0..2
    /\ BlockBodies[0].tx_count = 2
    /\ BlockBodies[1].tx_count = 0
    /\ BlockBodies[2].tx_count = 1
    /\ DOMAIN TxSenders = 0..2

\* the transition id before block n
TransitionBefore(n) == IF n = 0 THEN 0 ELSE BlockTransitionIndex[n - 1]

LastSealBytes ==
    [i \in 1..EXTRA_SEAL |->
        sealed_header.extra_data[Len(sealed_header.extra_data) - EXTRA_SEAL + i]]

\* C27: recover_header_signer returns MissingSignature when extra_data is shorter than
\* 65 bytes; otherwise it takes the last 65 bytes of extra_data as the signature over
\* the header hash and returns HeaderSignerRecovery when the recovery fails and the
\* signer otherwise.
C27_HeaderSigner ==
    signer_result.err # "none" =>
        IF Len(sealed_header.extra_data) < 65
        THEN signer_result.err = "MissingSignature"
        ELSE IF secp256k1_recover(LastSealBytes, sealed_header.hash) = NoSigner
        THEN /\ signer_result.err = "HeaderSignerRecovery"
             /\ signer_result.signature = LastSealBytes
             /\ signer_result.hash = sealed_header.hash
        ELSE /\ signer_result.err = None
             /\ signer_result.signer = secp256k1_recover(LastSealBytes, sealed_header.hash)

\* C27 witness: the signer was recovered from the seal of an extra_data whose vanity
\* bytes alone are no signature
C27_Witness ==
    /\ Len(sealed_header.extra_data) = 67
    /\ sealed_header.extra_data[1] = 0
    /\ sealed_header.extra_data[67] = 1
    /\ signer_result.err = None

(***************************************************************************)
(* MeteredStream counters, checked under SpecMeter                         *)
(***************************************************************************)
\* the streams that share the meter m
StreamsOf(m) == {s \in MeteredStreams : MeterOf(s) = m}

\* the sum of f over the streams of S
RECURSIVE SumOver(_, _)
SumOver(S, f) ==
    IF S = {} THEN 0
    ELSE LET s == CHOOSE x \in S : TRUE IN f[s] + SumOver(S \ {s}, f)

\* every meter holds the bytes its streams read and wrote
CountsAreSums ==
    \A m \in {"client", "server"} :
        /\ stream_counts[m].ingress =
              SumOver(StreamsOf(m), [s \in MeteredStreams |-> inner_io[s].read])
        /\ stream_counts[m].egress =
              SumOver(StreamsOf(m), [s \in MeteredStreams |-> inner_io[s].written])

\* once nothing written is left unread, the readers' ingress is the writers' egress
ReadEqualsWrite ==
    \A m \in {"client", "server"} :
        (\A s \in StreamsOf(m) : duplex[s].inbox = 0)
            => \A s \in StreamsOf(m) :
                  stream_counts[m].ingress = stream_counts[MeterOf(PeerOf(s))].egress

\* C28: over any interleaving of reads and writes on the streams that share a
\* MeteredStreamCounts, total_ingress is the sum of the bytes read and total_egress the
\* sum of the bytes written; the counters never decrease and a pending or failed call
\* leaves them as they are; when the readers have read all that was written, their
\* ingress is the writers' egress.
C28_MeteredCounts ==
    /\ [](CountsAreSums /\ ReadEqualsWrite)
    /\ [][/\ \A m \in {"client", "server"} :
              /\ stream_counts'[m].ingress >= stream_counts[m].ingress
              /\ stream_counts'[m].egress >= stream_counts[m].egress
          /\ io'.outcome \in {"Pending", "Err"} => stream_counts' = stream_counts]_vars

\* C28 witness: both clients wrote and the servers have read all of it, the last byte
\* by a read that took less than was written at once
C28_Witness ==
    /\ inner_io[<<1, "client">>].written = 2
    /\ inner_io[<<2, "client">>].written = 1
    /\ stream_counts["client"].egress = 3
    /\ stream_counts["server"].ingress = 3
    /\ \A s \in StreamsOf("server") : duplex[s].inbox = 0
    /\ io.op = "read"
    /\ io.outcome = "Ok"
    /\ io.n = 1

(***************************************************************************)
(* The frame of SenderRecovery execute, checked under SpecStages           *)
(***************************************************************************)
\* the blocks of the range an execute call processes
ProcessedRange(call) ==
    (call.stage_progress + 1) ..
        Min(call.previous_stage_progress, call.stage_progress + commit_threshold)

\* C29: an execute call of SenderRecovery writes TxSenders entries only for the
\* transactions of the blocks in (stage_progress, min(previous_stage_progress,
\* stage_progress + commit_threshold)], never for a transaction of a later block, and
\* it advances by at most commit_threshold blocks.
C29_SendersOfRangeOnly ==
    [][(stage = SENDER_RECOVERY /\ last'.op = "execute") =>
            /\ \A id \in (DOMAIN TxSenders') \ (DOMAIN TxSenders) :
                   \E b \in ProcessedRange(last') :
                       /\ b \in DOMAIN BlockBodies
                       /\ id \in tx_id_range(BlockBodies[b])
            /\ last'.result = "Ok" =>
                   last'.out_progress <= last'.stage_progress + commit_threshold]_vars

(***************************************************************************)
(* The done flag of SenderRecovery execute, checked under SpecStages       *)
(***************************************************************************)
\* C31: a SenderRecovery execute with previous_stage_progress > stage_progress returns
\* done = true if and only if the stage_progress it returns is previous_stage_progress,
\* also when the capped block range holds no transaction.
C31_DoneIffTargetReached ==
    (/\ stage = SENDER_RECOVERY
     /\ ExecutedOk(last)
     /\ last.previous_stage_progress > last.stage_progress)
        => (last.done <=> last.out_progress = last.previous_stage_progress)

(***************************************************************************)
(* The commit-and-continue loop, checked under SpecLoop                    *)
(***************************************************************************)
\* C32: whatever commit_threshold is configured, an execute that returns done = false
\* has advanced the progress, and the loop of calls comes to a call that returns
\* done = true (or an error that ends the run).
C32_LoopTerminates ==
    /\ [][(last'.op = "execute" /\ last'.result = "Ok" /\ ~last'.done)
              => last'.out_progress > last'.stage_progress]_vars
    /\ <>(last.op = "execute" /\ (last.done \/ last.result # "Ok"))

(***************************************************************************)
(* Total difficulty over missing and unreadable headers, under SpecTd      *)
(***************************************************************************)
\* C33: when TotalDifficulty execute returns Ok with stage_progress = P, HeaderTD has
\* an entry for every block of (input stage_progress, P]: a header missing from Headers
\* or a failed read of a header makes execute return an error.
C33_EveryBlockHasTD ==
    [][(stage = TOTAL_DIFFICULTY /\ last'.op = "execute" /\ last'.result = "Ok")
          => \A n \in (last'.stage_progress + 1)..last'.out_progress :
                 n \in DOMAIN HeaderTD']_vars

(***************************************************************************)
(* insert_block failing on the parent lookup, checked under SpecInsert     *)
(***************************************************************************)
\* C34: when insert_block returns an error because the parent's CanonicalHeaders,
\* BlockBodies or BlockTransitionIndex entry is missing, every table is as it was
\* before the call.
C34_ErrorWritesNothing ==
    [][(inserted' # inserted
        /\ inserted'.result \in {"BlockNumber", "BlockBody", "BlockTransition"})
          => UNCHANGED <<Headers, HeaderTD, BlockBodies, Transactions, TxSenders,
                         TxTransitionIndex, BlockTransitionIndex>>]_vars

(***************************************************************************)
(* The loop over the in-flight requests, checked under SpecRequests        *)
(***************************************************************************)
\* the requests poll has not polled yet
Unpolled == {inflight_requests[i] : i \in 1..req_idx}

\* the requests poll has polled, and those of them it found pending
PolledRequests == {request_polls[i].req : i \in DOMAIN request_polls}

StillPending ==
    {request_polls[i].req : i \in {j \in DOMAIN request_polls :
                                        request_polls[j].outcome = "Pending"}}

\* the loop over the in-flight requests is over
RequestsPolled == req_idx = 0 \/ PollOrder[polling] # "inflight_requests"

\* the hashes of the valid transactions of a response
ValidHashes(txs) == {txs[i].hash : i \in {j \in DOMAIN txs : txs[j].valid}}

\* C35: in a poll every in-flight request is polled exactly once, and after the loop
\* the in-flight list holds exactly the requests found pending, each once; a response
\* with transactions is imported as a Response (the peer's known set is left alone,
\* every valid transaction of a registered peer of a synced node is tracked for
\* import), and an error or a dropped channel gives exactly one report, for the peer of
\* the request.
C35_RequestsPolledOnce ==
    /\ [](RequestsPolled =>
             /\ {inflight_requests[i] : i \in DOMAIN inflight_requests} = StillPending
             /\ Len(inflight_requests) = Cardinality(StillPending))
    /\ [][req_idx' = req_idx - 1 =>
             LET req == inflight_requests[req_idx]
                 p == request_polls'[Len(request_polls')]
             IN  /\ Len(request_polls') = Len(request_polls) + 1
                 /\ p.req = req
                 /\ req \notin PolledRequests
                 /\ Unpolled' = Unpolled \ {req}
                 /\ p.outcome = "Pending" => UNCHANGED <<peers, pool_imports, reports,
                                                          transactions_by_peers, sent>>
                 /\ p.outcome = "Ok" =>
                        /\ peers' = peers
                        /\ (~is_syncing /\ req.peer_id \in DOMAIN peers) =>
                               ValidHashes(p.txs) \subseteq DOMAIN transactions_by_peers'
                 /\ p.outcome = "Err" =>
                        /\ reports' = <<req.peer_id>>
                        /\ UNCHANGED <<peers, pool_imports, transactions_by_peers>>]_vars

\* C35 witness: of three requests in flight the first is still pending, the second
\* failed and the third brought transactions that are being imported
C35_Witness ==
    /\ RequestsPolled
    /\ Len(request_polls) = 3
    /\ request_polls[1].outcome = "Ok"
    /\ request_polls[1].req.id = 3
    /\ request_polls[2].outcome = "Err"
    /\ request_polls[3].outcome = "Pending"
    /\ Len(inflight_requests) = 1
    /\ inflight_requests[1].id = 1
    /\ pool_imports # <<>>

(***************************************************************************)
(* The peer table, checked under SpecTx                                    *)
(***************************************************************************)
\* the events of a peer that carry transactions, hashes or a request
PeerTransactionEvents ==
    {"IncomingTransactions", "IncomingPooledTransactionHashes", "GetPooledTransactions",
     "RequestResolved"}

C36_ResponseOfClosedPeer ==
    /\ handled.event = "RequestResolved"
    /\ ~is_syncing
    /\ handled.peer_id \notin DOMAIN peers
    /\ pool_imports = <<>>

(***************************************************************************)
(* Hash announcements and their responses, checked under SpecTx            *)
(***************************************************************************)
\* the in-flight request at position idx resolves with the transactions txs
Responds(idx, txs) ==
    /\ idx \in DOMAIN inflight_requests
    /\ inflight_requests' = [i \in 1..(Len(inflight_requests) - 1) |->
                                IF i < idx THEN inflight_requests[i]
                                ELSE inflight_requests[i + 1]]
    /\ on_response(inflight_requests[idx], TRUE, txs)

\* the announced hashes that are not in the pool, in the order of the announcement
UnknownToPool(msg) == SelectSeq(msg, LAMBDA hash : hash \notin pool)

C37_ResponseImported ==
    /\ handled.event = "RequestResolved"
    /\ ~is_syncing
    /\ handled.peer_id \in DOMAIN peers
    /\ pool_imports # <<>>
    /\ Range(pool_imports) \subseteq Range(peers[handled.peer_id].transactions)
    /\ reports = <<>>

(***************************************************************************)
(* NodeState::connected_peers, checked under SpecNode                      *)
(***************************************************************************)
\* C38: connected_peers is the number of SessionEstablished events minus the number
\* of SessionClosed events the handler was given, that difference never goes below
\* zero and the handler does not stop on an underflow, also when a session that was
\* established before the handler listened is closed.
C38_ConnectedPeersCount ==
    /\ handle_events = "running"
    /\ event_counts.closed <= event_counts.established
    /\ connected_peers = usize(event_counts.established - event_counts.closed)

(***************************************************************************)
(* Index round trip, checked under SpecIndex                               *)
(***************************************************************************)
\* C39: deserializing what Index::serialize wrote gives the Index that was
\* serialized, for every index value.
C39_RoundTrip ==
    (index # NoIndex /\ parsed # NoResult) => parsed = IndexOk(index)

====
